---- MODULE Spec2Model ----
(***************************************************************************)
(* Verification model of the cztenis scraper core: the crawl frontier      *)
(* (scrape_queue table + QueueManager), the crawl loop and the per-player  *)
(* cycle of PlayerScraper, the match store, the record validator and the   *)
(* adaptive rate limiter, the score interpreter and the tournament         *)
(* integrity validator.                                                    *)
(*                                                                         *)
(* The specifications share the variables and the definitions:             *)
(*   Spec          the crawl loop with the operator commands (forced       *)
(*                 enqueue, reset-queue, clear-queue) running beside it;   *)
(*   SpecAuto      the crawl loop left to itself, over a wider choice of   *)
(*                 season pages;                                           *)
(*   SpecFrontier  the operations of ScrapeQueueRepository / QueueManager  *)
(*                 called in any order;                                    *)
(*   SpecStore     MatchRepository.create called by one worker;            *)
(*   SpecPacer     the AdaptiveRateLimiter with wall-clock time;           *)
(*   SpecScore     the score interpreter applied to a score text;          *)
(*   SpecAudit     the integrity validator over any small matches table;   *)
(*   SpecAuditedCrawl  the validator running beside the crawl loop;        *)
(*   SpecRun       start commands one after the other, with any player     *)
(*                 limit and longer seasons; SpecRunFair adds the fairness *)
(*                 of the running process;                                 *)
(*   SpecPolling   an unlimited run beside a client that enqueues, with    *)
(*                 the fairness of the running process;                    *)
(*   SpecBothPages the crawl loop over the pages of both players of a      *)
(*                 match;                                                  *)
(*   SpecValidate  validateMatch applied to a parsed match record;         *)
(*   SpecDoubles   the crawl loop over the pages of a doubles match;       *)
(*   SpecChain     a run, with or without --max-depth, over a chain of     *)
(*                 three players, without operator and without SIGINT;     *)
(*                 SpecChainFair adds the fairness of the running process; *)
(*   SpecRescrape  the same run beside a client that forces re-enqueues;   *)
(*   SpecRecovery  the rate limiter's onSuccess / onError in any sequence, *)
(*                 with the fairness of the successful request;            *)
(*   SpecIngestAudit  the validator beside a crawl of matches won by       *)
(*                 either side.                                            *)
(* No rate limiter call can throw or influence the control flow of the     *)
(* crawl, so the crawl specifications keep the limiter's fields constant   *)
(* and SpecPacer keeps the store constant.                                 *)
(***************************************************************************)
EXTENDS Integers, Sequences, FiniteSets, Bags, TLC

\* ------------------------------------------------------------------ bounds
MaxClock == 2
MaxAttempts == 2
MaxProcessed == 2
MaxSeasons == 1
MaxMatches == 1

\* the player ids of the model
Players == {1, 2}
Priorities == {0, 1}
DepthArgs == {0, 1}
MaxDepthOptions == {-1, 0}
MaxPlayersOptions == {-1, 1}

\* the seasons, the matches of a season and the --limit values of SpecRun
RunSeasons == 2
RunMatches == 2
RunLimits == {-1, 0, 1, 2}

\* SQL NULL for integer columns (player ids and timestamps are positive)
NULL == 0
NoError == "null"

VARIABLES
    queue,          \* rows of table scrape_queue (a bag: column id left out)
    clock,          \* CURRENT_TIMESTAMP of the database, in seconds
    pc,             \* position of the crawl process
    isRunning,      \* QueueManager.isRunning
    paused,         \* PQueue paused by stop()
    maxDepth,       \* QueueManager.maxDepth
    maxPlayers,     \* QueueManager.maxPlayers
    processedCount, \* QueueManager.processedCount
    nextItem,       \* {playerId, depth} of the row returned by getNextPending
    seasonsLeft,    \* seasons of the current player still to fetch
    matchesLeft,    \* matches of the current season still to process
    players,        \* ids of table players
    tournaments,    \* ids of table tournaments
    matches,        \* rows of table matches (a bag: column id left out)
    dateNow,        \* Date.now(), in ms
    limiter,        \* the fields of the AdaptiveRateLimiter
    waiting,        \* the caller of waitForNextRequest: "no", "sleeping", "fetching"
    scoreText,      \* the score string handed to the score interpreter
    leftIsMe,       \* its argument leftPlayerIsMe
    interpreted,    \* what the interpreter returned for them (no call: <<>>)
    auditTodo,      \* integrity validator: the checks its running call still makes
    audited,        \* ... its last validatePlayerTournament: arguments, rows, issues
    report,         \* ... the issues its running or last call collected
    candidate,      \* the ParsedMatch handed to the record validator
    verdict         \* the ValidationResult it returned (no call: <<>>)

queueVars == <<queue, clock>>
loopVars == <<pc, isRunning, paused, maxDepth, maxPlayers, processedCount,
              nextItem, seasonsLeft, matchesLeft>>
storeVars == <<players, tournaments, matches>>
pacerVars == <<dateNow, limiter, waiting>>
scoreVars == <<scoreText, leftIsMe, interpreted>>
auditVars == <<auditTodo, audited, report>>
validateVars == <<candidate, verdict>>
toolVars == <<scoreVars, auditVars, validateVars>>
vars == <<queueVars, loopVars, storeVars, pacerVars, toolVars>>

\* ------------------------------------------------- scrape_queue repository

\* the rows of a player (player_id carries a UNIQUE index)
RowsOf(rows, playerId) == {r \in BagToSet(rows) : r.playerId = playerId}

\* INSERT INTO scrape_queue with the column defaults of the schema
NewQueueRow(playerId, priority, now) ==
    [playerId |-> playerId, priority |-> priority,
     status |-> "pending", attempts |-> 0, lastAttemptAt |-> NULL,
     errorMessage |-> NoError, depth |-> 0, sourcePlayerId |-> NULL,
     createdAt |-> now]

addAlwaysInsert(rows, playerId, priority, force, now) ==
    rows (+) SetToBag({NewQueueRow(playerId, priority, now)})

addResettingOnConflict(rows, playerId, priority, force, now) ==
    IF RowsOf(rows, playerId) = {}
    THEN rows (+) SetToBag({NewQueueRow(playerId, priority, now)})
    ELSE BagOfAll(LAMBDA r : IF r.playerId = playerId
                       THEN [r EXCEPT !.status = "pending",
                                      !.priority = priority,
                                      !.errorMessage = NoError]
                       ELSE r, rows)

\* an add whose conflict clause without force is DO UPDATE SET priority
addUpdatingPriority(rows, playerId, priority, force, now) ==
    IF RowsOf(rows, playerId) = {}
    THEN rows (+) SetToBag({NewQueueRow(playerId, priority, now)})
    ELSE BagOfAll(LAMBDA r : IF r.playerId = playerId
                       THEN IF force
                            THEN [r EXCEPT !.status = "pending",
                                           !.priority = priority,
                                           !.errorMessage = NoError]
                            ELSE [r EXCEPT !.priority = priority]
                       ELSE r, rows)

\* ScrapeQueueRepository.add(playerId, priority, force): the depth and
\* sourcePlayerId that QueueManager passes as 4th and 5th argument are not
\* parameters of add and are dropped, so the columns keep their defaults.
add(rows, playerId, priority, force, now) ==
    IF RowsOf(rows, playerId) = {}
    THEN rows (+) SetToBag({NewQueueRow(playerId, priority, now)})
    ELSE IF force
         THEN BagOfAll(LAMBDA r : IF r.playerId = playerId
                       THEN [r EXCEPT !.status = "pending",
                                      !.priority = priority,
                                      !.errorMessage = NoError]
                       ELSE r, rows)
         ELSE rows

\* a markProcessing that does not count the attempt
markProcessingWithoutCount(rows, playerId, now) ==
    BagOfAll(LAMBDA r : IF r.playerId = playerId
                       THEN [r EXCEPT !.status = "processing",
                                      !.lastAttemptAt = now]
                       ELSE r, rows)

markProcessing(rows, playerId, now) ==
    BagOfAll(LAMBDA r : IF r.playerId = playerId
                       THEN [r EXCEPT !.status = "processing",
                                      !.lastAttemptAt = now,
                                      !.attempts = r.attempts + 1]
                       ELSE r, rows)

\* a markCompleted whose UPDATE matches no row
markCompletedWithoutUpdate(rows, playerId) == rows

markCompleted(rows, playerId) ==
    BagOfAll(LAMBDA r : IF r.playerId = playerId
                       THEN [r EXCEPT !.status = "completed",
                                      !.errorMessage = NoError]
                       ELSE r, rows)

markFailed(rows, playerId, errorMessage) ==
    BagOfAll(LAMBDA r : IF r.playerId = playerId
                       THEN [r EXCEPT !.status = "failed",
                                      !.errorMessage = errorMessage]
                       ELSE r, rows)

\* WHERE status = 'pending'
PendingRows(rows) == {r \in BagToSet(rows) : r.status = "pending"}

\* ORDER BY priority DESC, created_at: r sorts strictly before s
SortsBefore(r, s) ==
    \/ r.priority > s.priority
    \/ r.priority = s.priority /\ r.createdAt < s.createdAt

getNextPendingOldestFirst(rows) ==
    {r \in PendingRows(rows) : \A s \in PendingRows(rows) : s.createdAt >= r.createdAt}

\* getNextPending: the rows LIMIT 1 may return (SQL leaves the order of rows
\* that tie on both sort keys open); the empty set stands for null
getNextPending(rows) ==
    {r \in PendingRows(rows) : \A s \in PendingRows(rows) : ~SortsBefore(s, r)}

addPlayerStoringAnyDepth(rows, limit, playerId, priority, force, depth, sourcePlayerId, now) ==
    IF RowsOf(rows, playerId) = {}
    THEN rows (+) SetToBag({[NewQueueRow(playerId, priority, now) EXCEPT
                                !.depth = depth, !.sourcePlayerId = sourcePlayerId]})
    ELSE add(rows, playerId, priority, force, now)

\* an addPlayer that compares the depth with maxDepth also when maxDepth is -1
addPlayerBoundedAlways(rows, limit, playerId, priority, force, depth, sourcePlayerId, now) ==
    IF depth > limit
    THEN rows
    ELSE add(rows, playerId, priority, force, now)

\* QueueManager.addPlayer: depth bound, then repo.add
addPlayer(rows, limit, playerId, priority, force, depth, sourcePlayerId, now) ==
    IF limit >= 0 /\ depth > limit
    THEN rows
    ELSE add(rows, playerId, priority, force, now)

\* ------------------------------------------------------------ score strings
\* A score string is modelled by its comma-separated elements: the set
\* elements in order, followed by an optional marker element.  A set element
\* records whether it matches /^(\d+):(\d+)(?:\s*\((\d+)\))?$/ (fmt), whether
\* it contains ':' (colon), what parseInt yields for the two sides of the
\* colon (g1, g2; NaN is replaced by 0 in the code) and the tiebreak number
\* (tb, -1 when there is none).
NoTb == -1
SetTok(g1, g2, tb) == [fmt |-> TRUE, colon |-> TRUE, g1 |-> g1, g2 |-> g2, tb |-> tb]
BadTok(colon, g1, g2) == [fmt |-> FALSE, colon |-> colon, g1 |-> g1, g2 |-> g2, tb |-> NoTb]
ScoreStr(sets, marker) == [sets |-> sets, marker |-> marker]

\* markers (in the letter case given) whose lower-cased text contains one of
\* 'scr.', 'w.o.', 'def.', 'ret.', 'skrec' (score-validator.ts, line 18; the
\* last pattern is written with a hacek in the source)
ValidatorWalkoverMarkers == {"scr.", "SCR.", "w.o.", "def.", "ret.", "skrec"}
\* ... one of 'scr', 'scr.', 'w.o.', 'def.', 'ret.', 'skrec' (score-constants.ts)
WALKOVER_PATTERNS == ValidatorWalkoverMarkers \cup {"scr"}
\* markers that contain 'scr.' as written (no case folding)
ScrDotMarkers == {"scr."}

IsEmptyScore(score) == score.sets = <<>> /\ score.marker = ""

\* the elements of score.split(','): the sets, then the marker if present
\* (the marker element is no set: it has no colon)
SplitSets(score) ==
    IF score.marker = "" THEN score.sets
    ELSE Append(score.sets, BadTok(FALSE, 0, 0))

\* score-parser: parseScore(scoreText).isWalkover
parseScoreIsWalkover(score) == score.marker \in WALKOVER_PATTERNS

\* score-validator.ts isWalkover
isWalkover(score) ==
    IF IsEmptyScore(score) THEN FALSE
    ELSE score.marker \in ValidatorWalkoverMarkers

RECURSIVE SetsWon(_, _)
\* number of elements credited to the left (side = 1) or right (side = 2)
SetsWon(toks, side) ==
    IF toks = <<>> THEN 0
    ELSE LET t == Head(toks)
             won == /\ t.colon
                    /\ IF side = 1 THEN t.g1 > t.g2 ELSE t.g2 > t.g1
         IN (IF won THEN 1 ELSE 0) + SetsWon(Tail(toks), side)

determineWinnerStrictOnBothSides(score, leftPlayerIsMe) ==
    IF score.marker \in ScrDotMarkers
    THEN leftPlayerIsMe
    ELSE IF leftPlayerIsMe
         THEN SetsWon(SplitSets(score), 1) > SetsWon(SplitSets(score), 2)
         ELSE SetsWon(SplitSets(score), 2) > SetsWon(SplitSets(score), 1)

determineWinnerFromScore(score, leftPlayerIsMe) ==
    IF score.marker \in ScrDotMarkers
    THEN leftPlayerIsMe
    ELSE LET leftPlayerWonMatch ==
                 SetsWon(SplitSets(score), 1) > SetsWon(SplitSets(score), 2)
         IN IF leftPlayerIsMe THEN leftPlayerWonMatch ELSE ~leftPlayerWonMatch

\* toLowerCase() on the markers of the model
ToLower(marker) == IF marker = "SCR." THEN "scr." ELSE marker

\* score-constants.ts isWalkoverScore: contains 'scr.', or is exactly one of
\* 'w.o.', 'def.', 'ret.' (lower-cased and trimmed)
isWalkoverScore(score) ==
    \/ ToLower(score.marker) \in ScrDotMarkers
    \/ score.sets = <<>> /\ ToLower(score.marker) \in {"w.o.", "def.", "ret."}

RECURSIVE ParsedSets(_)
\* the loop of parseScoreDetails: elements without ':' are skipped, the
\* others are pushed with the winner of the set
ParsedSets(toks) ==
    IF toks = <<>> THEN <<>>
    ELSE LET t == Head(toks)
             setWinner == IF t.g1 > t.g2 THEN "left"
                          ELSE IF t.g2 > t.g1 THEN "right"
                          ELSE "tie"
         IN (IF t.colon
             THEN <<[left |-> t.g1, right |-> t.g2, winner |-> setWinner]>>
             ELSE <<>>) \o ParsedSets(Tail(toks))

parseScoreDetailsTiesToLeft(score) ==
    LET parsedSets == [i \in DOMAIN ParsedSets(SplitSets(score)) |->
                          LET e == ParsedSets(SplitSets(score))[i]
                          IN IF e.winner = "tie"
                             THEN [e EXCEPT !.winner = "left"] ELSE e]
        leftSetsWon == Cardinality({i \in DOMAIN parsedSets :
                                       parsedSets[i].winner = "left"})
        rightSetsWon == Cardinality({i \in DOMAIN parsedSets :
                                        parsedSets[i].winner = "right"})
    IN [sets |-> parsedSets, leftSetsWon |-> leftSetsWon,
        rightSetsWon |-> rightSetsWon,
        winner |-> IF leftSetsWon > rightSetsWon THEN "left"
                   ELSE IF rightSetsWon > leftSetsWon THEN "right"
                   ELSE "unknown"]

parseScoreDetails(score) ==
    IF isWalkoverScore(score)
    THEN [sets |-> <<>>, leftSetsWon |-> 0, rightSetsWon |-> 0,
          winner |-> "unknown"]
    ELSE LET parsedSets == ParsedSets(SplitSets(score))
             leftSetsWon == Cardinality({i \in DOMAIN parsedSets :
                                            parsedSets[i].winner = "left"})
             rightSetsWon == Cardinality({i \in DOMAIN parsedSets :
                                             parsedSets[i].winner = "right"})
         IN [sets |-> parsedSets, leftSetsWon |-> leftSetsWon,
             rightSetsWon |-> rightSetsWon,
             winner |-> IF leftSetsWon > rightSetsWon THEN "left"
                        ELSE IF rightSetsWon > leftSetsWon THEN "right"
                        ELSE "unknown"]

Max2(a, b) == IF a > b THEN a ELSE b
Min2(a, b) == IF a < b THEN a ELSE b
Abs(a) == IF a < 0 THEN -a ELSE a

\* score-validator.ts validateSet: the error and warning kinds of one element
validateSet(t) ==
    IF ~t.fmt THEN [errors |-> {"Invalid format"}, warnings |-> {}]
    ELSE LET games1 == t.g1
             games2 == t.g2
             diff == Abs(games1 - games2)
             winner == Max2(games1, games2)
             loser == Min2(games1, games2)
             e1 == IF games1 < 0 \/ games2 < 0 THEN {"Negative game count"} ELSE {}
             w1 == IF games1 > 20 \/ games2 > 20 THEN {"Unusually high game count"} ELSE {}
             w2 == IF t.tb # NoTb
                   THEN IF (games1 = 7 /\ games2 = 6) \/ (games1 = 6 /\ games2 = 7)
                        THEN IF t.tb > 20 THEN {"Unusually long tiebreak"} ELSE {}
                        ELSE IF (games1 = 1 /\ games2 = 0) \/ (games1 = 0 /\ games2 = 1)
                        THEN IF t.tb < 7 THEN {"Super tiebreak ended early"} ELSE {}
                        ELSE IF games1 >= 6 /\ games2 >= 6
                        THEN {"Tiebreak notation in long set"}
                        ELSE {"Unexpected tiebreak notation"}
                   ELSE IF winner = 6
                        THEN IF loser > 4 THEN {"6-x is unusual"} ELSE {}
                        ELSE IF winner = 7 /\ loser = 5 THEN {}
                        ELSE IF winner >= 6 /\ diff = 2 THEN {}
                        ELSE IF winner < 6 THEN {"Set ended before 6 games"}
                        ELSE {}
             e2 == IF /\ t.tb = NoTb
                      /\ winner # 6
                      /\ ~(winner = 7 /\ loser = 5)
                      /\ ~(winner >= 6 /\ diff = 2)
                      /\ ~(winner < 6)
                      /\ winner > 7 /\ diff < 2
                   THEN {"Invalid score - must win by 2"} ELSE {}
         IN [errors |-> e1 \cup e2, warnings |-> w1 \cup w2]

\* score-validator.ts validateScore
validateScore(score) ==
    IF IsEmptyScore(score)
    THEN [valid |-> FALSE, errors |-> {"Score is empty"}, warnings |-> {}]
    ELSE IF score.marker \in ValidatorWalkoverMarkers
    THEN [valid |-> TRUE, errors |-> {},
          warnings |-> {"Score indicates walkover/retirement"}]
    ELSE LET sets == SplitSets(score)
             errs == UNION {validateSet(sets[i]).errors : i \in 1..Len(sets)}
             warns == UNION {validateSet(sets[i]).warnings : i \in 1..Len(sets)}
                      \cup (IF Len(sets) > 5 THEN {"Unusual number of sets"} ELSE {})
         IN [valid |-> errs = {}, errors |-> errs, warnings |-> warns]

\* ------------------------------------------------------------- extraction
\* One match row of a season page: the two cells hold the player ids of the
\* left and the right side (one id for singles, up to two for doubles).
PageRow(tournamentId, matchType, competitionType, round, left, right, score, points) ==
    [tournamentId |-> tournamentId, matchType |-> matchType,
     competitionType |-> competitionType, round |-> round,
     left |-> left, right |-> right, score |-> score, points |-> points]

InCell(cell, id) == \E i \in 1..Len(cell) : cell[i] = id

\* cell[i].id, or undefined (NULL) when the cell has no i-th player
IdAt(cell, i) == IF i <= Len(cell) THEN cell[i] ELSE NULL

\* myCellPlayers.find(p => !p.isMe)
FirstOther(cell, me) ==
    IF \E i \in 1..Len(cell) : cell[i] # me
    THEN cell[CHOOSE i \in 1..Len(cell) :
                  cell[i] # me /\ \A j \in 1..(i - 1) : cell[j] = me]
    ELSE NULL

\* parseMatches keeps a row only if the scraped player is in one of its cells
RowMentions(row, scrapedPlayerId) ==
    InCell(row.left, scrapedPlayerId) \/ InCell(row.right, scrapedPlayerId)

\* new Date().getFullYear(); a tournamentDate of the model is its year
\* (NULL: no date).  parseMatches starts from today's date and replaces it
\* by the date of the header when that parses, so the rows of the model are
\* dated this year.
ThisYear == 2026

\* parseMatches, body of the per-row callback: the ParsedMatch of a row
ParsedMatchOf(row, scrapedPlayerId) ==
    LET meInLeft == InCell(row.left, scrapedPlayerId)
        myCellPlayers == IF meInLeft THEN row.left ELSE row.right
        opponentCellPlayers == IF meInLeft THEN row.right ELSE row.left
        singles == row.matchType = "singles"
    IN [tournamentId |-> row.tournamentId,
        tournamentName |-> "Turnaj",
        tournamentDate |-> ThisYear,
        matchType |-> row.matchType,
        competitionType |-> row.competitionType,
        round |-> row.round,
        opponentId |-> IdAt(opponentCellPlayers, 1),
        partnerId |-> IF singles THEN NULL
                      ELSE FirstOther(myCellPlayers, scrapedPlayerId),
        opponentPartnerId |-> IF singles THEN NULL
                              ELSE IdAt(opponentCellPlayers, 2),
        score |-> row.score,
        isWalkover |-> parseScoreIsWalkover(row.score),
        isWinner |-> determineWinnerFromScore(row.score, meInLeft),
        pointsEarned |-> row.points]

\* -------------------------------------------------------- record validator
VALID_MATCH_TYPES == {"singles", "doubles"}
VALID_COMPETITION_TYPES == {"individual", "team"}
\* round labels of the model that contain one of VALID_ROUNDS
KnownRounds == {"32>16", "16>8", "8>4", "4>2", "2>1"}

\* a validator for which a doubles record without partner links is an error
validateMatchErrorsStrictOnDoubles(match) ==
    (IF match.tournamentId = NULL THEN {"Missing or invalid tournament ID"} ELSE {})
    \cup (IF match.tournamentDate = NULL THEN {"Missing tournament date"} ELSE {})
    \cup (IF match.opponentId = NULL /\ ~match.isWalkover
          THEN {"Missing opponent ID (not a walkover)"} ELSE {})
    \cup (IF match.matchType = "doubles" /\ match.partnerId = NULL
          THEN {"Doubles match missing partner ID"} ELSE {})
    \cup (IF match.matchType \notin VALID_MATCH_TYPES THEN {"Invalid match type"} ELSE {})
    \cup (IF match.competitionType \notin VALID_COMPETITION_TYPES
          THEN {"Invalid competition type"} ELSE {})
    \cup (IF match.round = "" THEN {"Missing round information"} ELSE {})
    \cup (IF IsEmptyScore(match.score) THEN {"Missing score"}
          ELSE validateScore(match.score).errors)
    \cup (IF match.pointsEarned < 0 THEN {"Negative points earned"} ELSE {})

\* validateMatch(match).errors
validateMatchErrors(match) ==
    (IF match.tournamentId = NULL THEN {"Missing or invalid tournament ID"} ELSE {})
    \cup (IF match.tournamentDate = NULL THEN {"Missing tournament date"} ELSE {})
    \cup (IF match.opponentId = NULL /\ ~match.isWalkover
          THEN {"Missing opponent ID (not a walkover)"} ELSE {})
    \cup (IF match.matchType \notin VALID_MATCH_TYPES THEN {"Invalid match type"} ELSE {})
    \cup (IF match.competitionType \notin VALID_COMPETITION_TYPES
          THEN {"Invalid competition type"} ELSE {})
    \cup (IF match.round = "" THEN {"Missing round information"} ELSE {})
    \cup (IF IsEmptyScore(match.score) THEN {"Missing score"}
          ELSE validateScore(match.score).errors)
    \cup (IF match.pointsEarned < 0 THEN {"Negative points earned"} ELSE {})

\* validateMatch(match).warnings
validateMatchWarnings(match) ==
    (IF match.tournamentName = "" THEN {"Missing tournament name"} ELSE {})
    \cup (IF /\ match.tournamentDate # NULL
             /\ (match.tournamentDate < 2000 \/ match.tournamentDate > ThisYear + 1)
          THEN {"Unusual tournament year"} ELSE {})
    \cup (IF /\ match.opponentId # NULL
             /\ ~(match.opponentId >= 1000000 /\ match.opponentId <= 1099999)
          THEN {"Unusual opponent ID format"} ELSE {})
    \cup (IF match.matchType = "doubles" /\ match.partnerId = NULL
          THEN {"Doubles match missing partner ID"} ELSE {})
    \cup (IF match.matchType = "doubles" /\ match.opponentPartnerId = NULL
             /\ ~match.isWalkover
          THEN {"Doubles match missing opponent partner ID"} ELSE {})
    \cup (IF match.round # "" /\ match.round \notin KnownRounds
          THEN {"Unusual round format"} ELSE {})
    \cup (IF IsEmptyScore(match.score) THEN {}
          ELSE validateScore(match.score).warnings
               \cup (IF isWalkover(match.score) # match.isWalkover
                     THEN {"Walkover flag mismatch"} ELSE {}))
    \cup (IF match.pointsEarned > 10000 THEN {"Unusually high points earned"} ELSE {})

validateMatch(match) ==
    [isValid |-> validateMatchErrors(match) = {},
     errors |-> validateMatchErrors(match),
     warnings |-> validateMatchWarnings(match)]

\* ------------------------------------------------------- match repository
\* the duplicate key of MatchRepository.create
MatchKey(r) == <<r.tournamentId, r.round, r.player1Id, r.player2Id, r.matchType>>

\* the row scrapePlayer hands to matchRepo.create
MatchData(match, playerId) ==
    [tournamentId |-> match.tournamentId,
     matchType |-> match.matchType,
     competitionType |-> match.competitionType,
     round |-> match.round,
     player1Id |-> IF match.isWinner THEN playerId ELSE match.opponentId,
     player2Id |-> IF match.isWinner THEN match.opponentId ELSE playerId,
     player1PartnerId |-> IF match.isWinner THEN match.partnerId
                          ELSE match.opponentPartnerId,
     player2PartnerId |-> IF match.isWinner THEN match.opponentPartnerId
                          ELSE match.partnerId,
     score |-> match.score,
     isWalkover |-> match.isWalkover,
     winnerId |-> IF match.isWinner THEN playerId ELSE match.opponentId,
     pointsEarned |-> match.pointsEarned]

\* MatchRepository.create throws: missing ids, or a FOREIGN KEY of the row
\* has no target (better-sqlite3 enforces foreign keys)
createThrows(data, playerIds, tournamentIds) ==
    \/ data.player1Id = NULL \/ data.player2Id = NULL
    \/ data.tournamentId = NULL
    \/ data.tournamentId \notin tournamentIds
    \/ {data.player1Id, data.player2Id, data.winnerId} \ playerIds # {}
    \/ ({data.player1PartnerId, data.player2PartnerId} \ {NULL}) \ playerIds # {}

createNoDuplicateCheck(rows, data) ==
    rows (+) SetToBag({data})

\* MatchRepository.create: the rows of table matches after the call
create(rows, data) ==
    IF \E r \in BagToSet(rows) : MatchKey(r) = MatchKey(data)
    THEN rows
    ELSE rows (+) SetToBag({data})

\* ------------------------------------------- tournament integrity validator
\* ROUND_ORDER: the knockout rounds, a higher number for an earlier round
ROUND_ORDER ==
    [r \in {"128>64", "64>32", "32>16", "16>8", "8>4", "4>2", "2>1"} |->
        CASE r = "128>64" -> 7 [] r = "64>32" -> 6 [] r = "32>16" -> 5
          [] r = "16>8" -> 4 [] r = "8>4" -> 3 [] r = "4>2" -> 2 [] r = "2>1" -> 1]

\* -1 for a round that is no knockout round
getRoundOrder(round) ==
    IF round \in DOMAIN ROUND_ORDER THEN ROUND_ORDER[round] ELSE -1

\* the round after a win ("null": there is none)
getNextRound(round) ==
    LET order == getRoundOrder(round)
    IN IF order <= 0 THEN "null"
       ELSE IF \E r \in DOMAIN ROUND_ORDER : ROUND_ORDER[r] = order - 1
            THEN CHOOSE r \in DOMAIN ROUND_ORDER : ROUND_ORDER[r] = order - 1
            ELSE "null"

\* SELECT ... FROM matches WHERE tournament_id = ? AND (player1_id = ? OR
\* player2_id = ?): the rows selected, as a bag
PlayerTournamentMatches(rows, playerId, tournamentId) ==
    LET sel == {r \in BagToSet(rows) :
                   /\ r.tournamentId = tournamentId
                   /\ r.player1Id = playerId \/ r.player2Id = playerId}
    IN [r \in sel |-> CopiesIn(r, rows)]

\* the orders in which a query without ORDER BY may return the rows of a bag
ReadOrders(rows) ==
    {read \in [1..BagCardinality(rows) -> BagToSet(rows)] :
        \A r \in BagToSet(rows) :
           Cardinality({i \in DOMAIN read : read[i] = r}) = CopiesIn(r, rows)}

RECURSIVE SortByRoundOrderDesc(_)
\* .filter(...) is SelectSeq;
\* .sort((a, b) => getRoundOrder(b.round) - getRoundOrder(a.round)): the
\* sort is stable, so matches of one round keep the order they were read in
SortByRoundOrderDesc(seq) ==
    IF seq = <<>> THEN <<>>
    ELSE LET m == seq[Len(seq)]
             sorted == SortByRoundOrderDesc(SubSeq(seq, 1, Len(seq) - 1))
         IN SelectSeq(sorted, LAMBDA x : getRoundOrder(x.round) >= getRoundOrder(m.round))
            \o <<m>>
            \o SelectSeq(sorted, LAMBDA x : getRoundOrder(x.round) < getRoundOrder(m.round))

Issue(type, rule, playerId, tournamentId, of) ==
    [type |-> type, rule |-> rule, playerId |-> playerId,
     tournamentId |-> tournamentId, matches |-> of]

RECURSIVE FirstRounds(_)
\* the keys of the Map roundCounts, in insertion order
FirstRounds(seq) ==
    IF seq = <<>> THEN <<>>
    ELSE LET rest == FirstRounds(SubSeq(seq, 1, Len(seq) - 1))
             round == seq[Len(seq)].round
         IN IF \E i \in DOMAIN rest : rest[i] = round THEN rest
            ELSE Append(rest, round)

RECURSIVE Rule1Issues(_, _, _, _)
\* Rule 1: more than one match of the player in one knockout round
Rule1Issues(rounds, knockout, playerId, tournamentId) ==
    IF rounds = <<>> THEN <<>>
    ELSE LET roundMatches == SelectSeq(knockout, LAMBDA m : m.round = Head(rounds))
         IN (IF Len(roundMatches) > 1
             THEN <<Issue("WARNING", "RULE_1_ONE_MATCH_PER_ROUND", playerId,
                          tournamentId, roundMatches)>>
             ELSE <<>>)
            \o Rule1Issues(Tail(rounds), knockout, playerId, tournamentId)

RECURSIVE Rule3Issues(_, _, _, _)
\* Rule 3: the loop over the sorted knockout matches; lastLoss is
\* lastLossRoundOrder, or NULL while lastLossRound is null
Rule3Issues(knockoutMatches, lastLoss, playerId, tournamentId) ==
    IF knockoutMatches = <<>> THEN <<>>
    ELSE LET match == Head(knockoutMatches)
             roundOrder == getRoundOrder(match.round)
             isWinner == match.winnerId = playerId
         IN (IF lastLoss # NULL /\ roundOrder < lastLoss
             THEN <<Issue("ERROR", "RULE_3_NO_MATCH_AFTER_LOSS", playerId,
                          tournamentId, <<match>>)>>
             ELSE <<>>)
            \o Rule3Issues(Tail(knockoutMatches),
                           IF isWinner THEN lastLoss ELSE roundOrder,
                           playerId, tournamentId)

RECURSIVE Rule2Issues(_, _, _, _)
\* Rule 2: a win outside the final without a match in the next round
Rule2Issues(todo, knockoutMatches, playerId, tournamentId) ==
    IF todo = <<>> THEN <<>>
    ELSE LET match == Head(todo)
             nextRound == getNextRound(match.round)
             missing ==
                 /\ match.winnerId = playerId
                 /\ match.round # "2>1"
                 /\ nextRound # "null"
                 /\ ~\E i \in DOMAIN knockoutMatches :
                        knockoutMatches[i].round = nextRound
         IN (IF missing
             THEN <<Issue("WARNING", "RULE_2_WINNER_CONTINUITY", playerId,
                          tournamentId, <<match>>)>>
             ELSE <<>>)
            \o Rule2Issues(Tail(todo), knockoutMatches, playerId, tournamentId)

\* calculateWinnerFromScore: "left", "right", or "null" when the sets are
\* level; an element counts when /(\d+):(\d+)/ finds a set in it
calculateWinnerFromScore(score) ==
    LET sets == score.sets
        player1Sets == Cardinality({i \in DOMAIN sets :
                                      sets[i].fmt /\ sets[i].g1 > sets[i].g2})
        player2Sets == Cardinality({i \in DOMAIN sets :
                                      sets[i].fmt /\ sets[i].g2 > sets[i].g1})
    IN IF player1Sets > player2Sets THEN "left"
       ELSE IF player2Sets > player1Sets THEN "right"
       ELSE "null"

RECURSIVE Rule4Issues(_, _, _)
\* Rule 4: the stored winner is not the winner the score shows
Rule4Issues(playerMatches, playerId, tournamentId) ==
    IF playerMatches = <<>> THEN <<>>
    ELSE LET match == Head(playerMatches)
             calculated == calculateWinnerFromScore(match.score)
             calculatedWinnerId == IF calculated = "left" THEN match.player1Id
                                   ELSE match.player2Id
             wrong == /\ ~IsEmptyScore(match.score)
                      /\ ~match.isWalkover
                      /\ calculated # "null"
                      /\ calculatedWinnerId # match.winnerId
         IN (IF wrong
             THEN <<Issue("WARNING", "RULE_4_SCORE_CONSISTENCY", playerId,
                          tournamentId, <<match>>)>>
             ELSE <<>>)
            \o Rule4Issues(Tail(playerMatches), playerId, tournamentId)

\* validatePlayerTournament: the issues it returns for the matches of the
\* player in the tournament, given in the order the query returned them
validatePlayerTournament(playerMatches, playerId, tournamentId) ==
    LET knockout == SelectSeq(playerMatches, LAMBDA m : getRoundOrder(m.round) > 0)
        knockoutMatches == SortByRoundOrderDesc(knockout)
    IN Rule1Issues(FirstRounds(knockout), knockout, playerId, tournamentId)
       \o Rule3Issues(knockoutMatches, NULL, playerId, tournamentId)
       \o Rule2Issues(knockoutMatches, knockoutMatches, playerId, tournamentId)
       \o Rule4Issues(playerMatches, playerId, tournamentId)

\* the orders in which the elements of a set may come
Orders(S) ==
    {seq \in [1..Cardinality(S) -> S] :
        \A i, j \in DOMAIN seq : i # j => seq[i] # seq[j]}

\* an entry of the work a call of the validator still has to do
AuditItem(kind, playerId, tournamentId) ==
    [kind |-> kind, playerId |-> playerId, tournamentId |-> tournamentId]

\* validatePlayer: SELECT DISTINCT tournament_id of the player's matches
PlayerTournamentItems(rows, playerId) ==
    {AuditItem("playerTournament", playerId, r.tournamentId) :
        r \in {x \in BagToSet(rows) :
                  /\ x.player1Id = playerId \/ x.player2Id = playerId
                  /\ x.tournamentId # NULL}}

\* validateTournament: the player ids of the tournament's matches
TournamentPlayerItems(rows, tournamentId) ==
    {AuditItem("playerTournament", id, tournamentId) :
        id \in UNION {{r.player1Id, r.player2Id} \ {NULL} :
                         r \in {x \in BagToSet(rows) :
                                   x.tournamentId = tournamentId}}}

\* validateAll without options: GROUP BY player1_id ORDER BY COUNT(*) DESC
TopPlayerOrders(rows) ==
    LET count(id) == BagCardinality([r \in {x \in BagToSet(rows) : x.player1Id = id}
                                       |-> CopiesIn(r, rows)])
        ids == {r.player1Id : r \in BagToSet(rows)} \ {NULL}
    IN {seq \in Orders({AuditItem("player", id, NULL) : id \in ids}) :
           \A i, j \in DOMAIN seq :
              i < j => count(seq[i].playerId) >= count(seq[j].playerId)}

\* findDuplicateMatches: GROUP BY the key HAVING COUNT(*) > 1; an issue names
\* the rows of its group
DuplicateIssues(rows) ==
    {Issue("ERROR", "DUPLICATE_MATCH", k[3], k[1],
           [r \in {x \in BagToSet(rows) : MatchKey(x) = k} |-> CopiesIn(r, rows)]) :
        k \in {MatchKey(r) : r \in
                 {x \in BagToSet(rows) :
                     BagCardinality([y \in {z \in BagToSet(rows) :
                                               MatchKey(z) = MatchKey(x)}
                                       |-> CopiesIn(y, rows)]) > 1}}}

\* ------------------------------------------------------ adaptive rate limiter
\* config.requestDelay, config.minDelay, config.maxDelay (ms)
requestDelay == 500
minDelay == 300
maxDelay == 5000

\* currentDelay is a fraction of a millisecond after a few reductions by 10%:
\* delays are kept in units of 10^-MaxDecimals ms (Date.now() counts whole ms)
MaxDecimals == 4
RECURSIVE Pow(_, _)
Pow(b, n) == IF n = 0 THEN 1 ELSE b * Pow(b, n - 1)
Scale == Pow(10, MaxDecimals)

\* new AdaptiveRateLimiter(baseDelay, minDelay, maxDelay)
AdaptiveRateLimiter(base, min, max) ==
    [baseDelay |-> base, minDelay |-> min, maxDelay |-> max,
     lastRequestTime |-> 0,
     currentDelay |-> base * Scale,
     consecutiveErrors |-> 0,
     consecutiveSuccesses |-> 0]

waitTimeNoWait(L, t) == 0

\* waitForNextRequest, lines 22-23: waitTime at Date.now() = t
waitTime(L, t) ==
    Max2(0, L.currentDelay - (t - L.lastRequestTime) * Scale)

\* currentDelay * 0.9 has an exact value in the units of the model, or is not
\* above minDelay (then Math.max yields minDelay whatever the fraction)
ReductionRepresentable(L) ==
    \/ L.currentDelay % 10 = 0
    \/ (L.currentDelay \div 10) * 9 + 9 <= L.minDelay * Scale

\* an onSuccess that reduces the delay on every call
onSuccessReducingEveryTime(L) ==
    [L EXCEPT !.consecutiveErrors = 0,
              !.currentDelay =
                  IF L.currentDelay % 10 = 0
                  THEN Max2(L.minDelay * Scale, (L.currentDelay \div 10) * 9)
                  ELSE L.minDelay * Scale,
              !.consecutiveSuccesses = 0]

\* an onSuccess that counts the streak and never reduces the delay
onSuccessCountingOnly(L) ==
    [L EXCEPT !.consecutiveErrors = 0,
              !.consecutiveSuccesses = (L.consecutiveSuccesses + 1) % 3]

onSuccess(L) ==
    IF L.consecutiveSuccesses + 1 >= 3
    THEN [L EXCEPT !.consecutiveErrors = 0,
                   !.currentDelay =
                       IF L.currentDelay % 10 = 0
                       THEN Max2(L.minDelay * Scale, (L.currentDelay \div 10) * 9)
                       ELSE L.minDelay * Scale,
                   !.consecutiveSuccesses = 0]
    ELSE [L EXCEPT !.consecutiveErrors = 0,
                   !.consecutiveSuccesses = L.consecutiveSuccesses + 1]

\* an onError whose exponent is not capped
onErrorUncapped(L) ==
    LET errors == L.consecutiveErrors + 1
    IN [L EXCEPT !.consecutiveSuccesses = 0,
                 !.consecutiveErrors = errors,
                 !.currentDelay =
                     Min2(L.maxDelay, L.baseDelay * Pow(2, errors)) * Scale]

onError(L) ==
    LET errors == L.consecutiveErrors + 1
        backoffMultiplier == Pow(2, Min2(errors, 4))
    IN [L EXCEPT !.consecutiveSuccesses = 0,
                 !.consecutiveErrors = errors,
                 !.currentDelay =
                     Min2(L.maxDelay, L.baseDelay * backoffMultiplier) * Scale]

reset(L) ==
    [L EXCEPT !.currentDelay = L.baseDelay * Scale,
              !.consecutiveErrors = 0,
              !.consecutiveSuccesses = 0]

\* ----------------------------------------------------------- input samples
Score63_64 == ScoreStr(<<SetTok(6, 3, NoTb), SetTok(6, 4, NoTb)>>, "")
Score46_76_63 == ScoreStr(<<SetTok(4, 6, NoTb), SetTok(7, 6, 5), SetTok(6, 3, NoTb)>>, "")
ScoreScr == ScoreStr(<<>>, "scr.")
ScoreEmpty == ScoreStr(<<>>, "")
ScoreMalformed == ScoreStr(<<SetTok(6, 3, NoTb), BadTok(TRUE, 6, 0)>>, "")
ScoreLong98 == ScoreStr(<<SetTok(9, 8, NoTb)>>, "")
Score36_46 == ScoreStr(<<SetTok(3, 6, NoTb), SetTok(4, 6, NoTb)>>, "")
Score42_63 == ScoreStr(<<SetTok(4, 2, NoTb), SetTok(6, 3, NoTb)>>, "")

\* score strings handed to the interpreter: up to MaxSets elements, each a
\* well-formed set with games 0..MaxGames (with or without a tiebreak), an
\* element 'g:x' or an element without colon; then an optional marker
MaxGames == 2
MaxSets == 2
ScoreToks ==
    {SetTok(g1, g2, tb) : g1 \in 0..MaxGames, g2 \in 0..MaxGames, tb \in {NoTb, 5}}
    \cup {BadTok(TRUE, 1, 0), BadTok(FALSE, 0, 0)}
ScoreMarkers == {"", "scr.", "w.o.", "scr"}
ScoreInputs ==
    {ScoreStr(sets, marker) :
        sets \in UNION {[1..n -> ScoreToks] : n \in 0..MaxSets},
        marker \in ScoreMarkers}

\* rows handed to MatchRepository.create in SpecAudit: knockout matches of
\* players 1 and 2 in tournament 100, either of them the winner, singles
\* and doubles, and at most MaxStored of them in the store
MaxStored == 3
AuditRows ==
    {MatchData(ParsedMatchOf(PageRow(100, type, "individual", round, <<pr[1]>>,
                                     <<pr[2]>>, Score63_64, 10), 1), 1) :
        type \in VALID_MATCH_TYPES, round \in {"8>4", "4>2"},
        pr \in {<<1, 2>>, <<2, 1>>}}

\* rows a season page shows in Spec: a singles match won by the left player
\* and a walkover whose opponent cell is empty
CrawlRows ==
    {PageRow(100, "singles", "individual", "8>4", <<1>>, <<2>>, Score63_64, 10),
     PageRow(100, "singles", "individual", "8>4", <<1>>, <<>>, ScoreScr, 0)}

\* rows a season page shows in SpecBothPages: the rows of Spec and the
\* singles match of the same round won by player 2
BothWinnersRows ==
    CrawlRows
    \cup {PageRow(100, "singles", "individual", "8>4", <<2>>, <<1>>, Score63_64, 10)}

\* the rows the season pages of four players show in SpecDoubles: a doubles
\* match of 1 and 3 (left) against 2 and 4, and a walkover of 1 and 3 whose
\* opponent cell is empty
DoublesRows ==
    {PageRow(100, "doubles", "individual", "8>4", <<1, 3>>, <<2, 4>>, Score63_64, 10),
     PageRow(100, "doubles", "individual", "4>2", <<1, 3>>, <<>>, ScoreScr, 0)}
DoublesPlayers == {1, 2, 3, 4}

\* rows the season pages show in SpecChain: player 1 has played player 2,
\* player 2 has played player 3, and player 3 has a walkover without a
\* recorded opponent.  Player p is p - 1 hops from player 1.
ChainRows ==
    {PageRow(100, "singles", "individual", "8>4", <<1>>, <<2>>, Score63_64, 10),
     PageRow(100, "singles", "individual", "4>2", <<2>>, <<3>>, Score63_64, 10),
     PageRow(100, "singles", "individual", "2>1", <<3>>, <<>>, ScoreScr, 0)}
ChainDepths == {0, 1}
HopsFromSeed(playerId) == playerId - 1

\* rows a season page shows in SpecIngestAudit: a match won by the player
\* in the left cell, a match won by the player in the right cell, and a
\* walkover without a recorded opponent
EitherSideRows ==
    {PageRow(100, "singles", "individual", "8>4", <<1>>, <<2>>, Score63_64, 10),
     PageRow(100, "singles", "individual", "4>2", <<1>>, <<2>>, Score36_46, 10),
     PageRow(100, "singles", "individual", "2>1", <<1>>, <<>>, ScoreScr, 0)}

\* rows a season page shows in SpecAuto: singles matches with a well-formed
\* score, a score that draws a warning, a malformed and an empty score,
\* walkovers whose opponent cell is empty, rows whose subject has no
\* opponent, a row without round label, and a doubles match without
\* partner links
AutoRows ==
    {PageRow(100, "singles", "individual", "8>4", <<1>>, <<2>>, sc, 10) :
        sc \in {Score63_64, Score42_63, ScoreMalformed, ScoreEmpty}}
    \cup {PageRow(100, "singles", "individual", "kolo", <<a>>, <<>>, ScoreScr, 0) :
        a \in Players}
    \cup {PageRow(100, "singles", "individual", "8>4", <<>>, <<a>>, Score63_64, 0) :
        a \in Players}
    \cup {PageRow(100, "singles", "individual", "", <<2>>, <<1>>, Score63_64, 10),
          PageRow(100, "doubles", "team", "4>2", <<1>>, <<2>>, Score46_76_63, 5)}

\* rows handed to MatchRepository.create in SpecStore
StoreRows ==
    {MatchData(ParsedMatchOf(PageRow(100, type, "individual", round, <<pr[1]>>,
                                     <<pr[2]>>, sc, 10), me), me) :
        type \in VALID_MATCH_TYPES, round \in {"8>4", "4>2"},
        pr \in {<<1, 2>>, <<2, 1>>},
        sc \in {Score63_64, Score46_76_63}, me \in {1, 2}}

\* constructor arguments of the limiter in SpecPacer: the configuration, a
\* base below the minimum, a base above the maximum
LimiterConfigs ==
    {<<requestDelay, minDelay, maxDelay>>, <<100, 300, 5000>>, <<6000, 300, 5000>>}

\* constructor arguments of the limiter in SpecRecovery: every delay such a
\* limiter can reach has at most MaxDecimals decimals (a base between the
\* limits, below the minimum, above the maximum)
RecoveryConfigs ==
    {<<500, 450, 1000>>, <<1000, 900, 2000>>, <<500, 400, 800>>,
     <<400, 450, 1000>>, <<1100, 900, 1000>>}

\* Date.now() when the process starts (ms): later than any delay after 0
StartTime == 9000
\* no request is begun later than this long after the start
MaxElapsed == 2000
FetchDurations == {0, 400}
TimerLateness == {0, 1}
MaxErrors == 5

\* ------------------------------------------------------------------- state
NoItem == [playerId |-> NULL, depth |-> 0]

\* the fields of the crawl process besides its position
configVars == <<maxDepth, maxPlayers>>
cycleVars == <<nextItem, seasonsLeft, matchesLeft>>

InitCrawl ==
    /\ queue = EmptyBag
    /\ clock = 1
    /\ pc = "off"
    /\ isRunning = FALSE
    /\ paused = FALSE
    /\ maxDepth = -1
    /\ maxPlayers = -1
    /\ processedCount = 0
    /\ nextItem = NoItem
    /\ seasonsLeft = 0
    /\ matchesLeft = 0
    /\ players = {}
    /\ tournaments = {}
    /\ matches = EmptyBag

InitPacer(base, min, max) ==
    /\ dateNow = StartTime
    /\ limiter = AdaptiveRateLimiter(base, min, max)
    /\ waiting = "no"

\* no call of the score interpreter yet
NotInterpreted == [won |-> <<>>, details |-> <<>>]

InitScore(score, side) ==
    /\ scoreText = score
    /\ leftIsMe = side
    /\ interpreted = NotInterpreted

\* no call of the integrity validator yet
NotAudited ==
    [playerId |-> NULL, tournamentId |-> NULL, playerMatches |-> <<>>,
     issues |-> <<>>]

InitAudit ==
    /\ auditTodo = <<>>
    /\ audited = NotAudited
    /\ report = <<>>

\* no call of the record validator yet: no record at hand
NoMatch == ParsedMatchOf(PageRow(NULL, "", "", "", <<>>, <<>>, ScoreEmpty, 0), NULL)

InitValidate(match) ==
    /\ candidate = match
    /\ verdict = <<>>

InitTools == InitScore(ScoreEmpty, FALSE) /\ InitAudit /\ InitValidate(NoMatch)

Init == InitCrawl /\ InitPacer(requestDelay, minDelay, maxDelay) /\ InitTools

\* the database clock moves on
Tick ==
    /\ clock < MaxClock
    /\ clock' = clock + 1
    /\ UNCHANGED <<queue, loopVars, storeVars, pacerVars, toolVars>>

\* ------------------------------------------------------- operator commands
\* the attempt counters stay within the bound of the model: a command that
\* makes a row eligible for another attempt is issued only below the bound,
\* and no command is issued once the run has processed MaxProcessed players
BelowMaxAttempts(rows) == \A r \in rows : r.attempts < MaxAttempts

\* a Frontier client enqueues a player through a QueueManager of its own
\* (scrape.ts start: playerRepo.upsert, then addPlayer)
Enqueue(limit, playerId, priority, force, depth) ==
    /\ processedCount < MaxProcessed
    /\ force => BelowMaxAttempts(RowsOf(queue, playerId))
    /\ queue' = addPlayer(queue, limit, playerId, priority, force, depth,
                          NULL, clock)
    /\ players' = players \cup {playerId}
    /\ UNCHANGED <<pacerVars, toolVars>>
    /\ UNCHANGED <<clock, loopVars, tournaments, matches>>

\* scrape.ts reset-queue
ResetQueue ==
    /\ processedCount < MaxProcessed
    /\ BelowMaxAttempts({r \in BagToSet(queue) : r.status = "failed"})
    /\ queue' = BagOfAll(LAMBDA r : IF r.status = "failed"
                       THEN [r EXCEPT !.status = "pending",
                                      !.errorMessage = NoError]
                       ELSE r, queue)
    /\ UNCHANGED <<pacerVars, toolVars>>
    /\ UNCHANGED <<clock, loopVars, storeVars>>

\* scrape.ts clear-queue
ClearQueue ==
    /\ processedCount < MaxProcessed
    /\ queue' = EmptyBag
    /\ UNCHANGED <<pacerVars, toolVars>>
    /\ UNCHANGED <<clock, loopVars, storeVars>>

\* ------------------------------------------------------------- crawl loop
\* scrape.ts start: new QueueManager(maxDepth, maxPlayers), the optional seed
\* (upsert + addPlayer(seed, 0, false, 0)), then processQueue up to its loop
StartRun(limit, count, seed) ==
    /\ pc = "off"
    /\ maxDepth' = limit
    /\ maxPlayers' = count
    /\ processedCount' = 0
    /\ IF seed = NULL
       THEN UNCHANGED <<queue, players>>
       ELSE /\ queue' = addPlayer(queue, limit, seed, 0, FALSE, 0, NULL, clock)
            /\ players' = players \cup {seed}
    /\ isRunning' = TRUE
    /\ paused' = FALSE
    /\ pc' = "top"
    /\ nextItem' = NoItem
    /\ seasonsLeft' = 0
    /\ matchesLeft' = 0
    /\ UNCHANGED <<pacerVars, toolVars>>
    /\ UNCHANGED <<clock, tournaments, matches>>

\* processQueue, top of the while loop: leave when stopped or when the
\* player limit is reached (stop()); the process then ends
LoopExit ==
    /\ pc = "top"
    /\ \/ ~isRunning
       \/ maxPlayers >= 0 /\ processedCount >= maxPlayers
    /\ isRunning' = FALSE
    /\ paused' = (paused \/ isRunning)
    /\ pc' = "off"
    /\ UNCHANGED <<pacerVars, toolVars>>
    /\ UNCHANGED <<queueVars, configVars, processedCount, cycleVars, storeVars>>

\* a loop that compares the count with > instead of >=
LoopContinuesOneMore ==
    /\ pc = "top"
    /\ isRunning
    /\ ~(maxPlayers >= 0 /\ processedCount > maxPlayers)

LoopContinues ==
    /\ pc = "top"
    /\ isRunning
    /\ ~(maxPlayers >= 0 /\ processedCount >= maxPlayers)

\* a loop that returns when getNextPending returns null
LoopPollGivingUp ==
    /\ LoopContinues
    /\ getNextPending(queue) = {}
    /\ pc' = "off"
    /\ isRunning' = FALSE
    /\ UNCHANGED <<pacerVars, toolVars>>
    /\ UNCHANGED <<queueVars, paused, configVars, processedCount,
                   cycleVars, storeVars>>

\* getNextPending returned null: the loop sleeps 5 s ...
LoopPoll ==
    /\ LoopContinues
    /\ getNextPending(queue) = {}
    /\ pc' = "wait"
    /\ UNCHANGED <<pacerVars, toolVars>>
    /\ UNCHANGED <<queueVars, isRunning, paused, configVars, processedCount,
                   cycleVars, storeVars>>

\* ... and goes back to the top of the loop
LoopWake ==
    /\ pc = "wait"
    /\ pc' = "top"
    /\ UNCHANGED <<pacerVars, toolVars>>
    /\ UNCHANGED <<queueVars, isRunning, paused, configVars, processedCount,
                   cycleVars, storeVars>>

\* getNextPending returned a row: the loop hands its task to the PQueue
LoopDequeue ==
    /\ LoopContinues
    /\ \E r \in getNextPending(queue) :
          nextItem' = [playerId |-> r.playerId, depth |-> r.depth]
    /\ pc' = "claimed"
    /\ UNCHANGED <<pacerVars, toolVars>>
    /\ UNCHANGED <<queueVars, isRunning, paused, configVars, processedCount,
                   seasonsLeft, matchesLeft, storeVars>>

\* a PQueue that starts a task although it is paused
TaskStartWhilePaused ==
    /\ pc = "claimed"
    /\ queue' = markProcessing(queue, nextItem.playerId, clock)
    /\ pc' = "profile"
    /\ UNCHANGED <<pacerVars, toolVars>>
    /\ UNCHANGED <<clock, isRunning, paused, configVars, processedCount,
                   cycleVars, storeVars>>

\* the PQueue starts the task (not while paused): markProcessing
TaskStart ==
    /\ pc = "claimed"
    /\ ~paused
    /\ queue' = markProcessing(queue, nextItem.playerId, clock)
    /\ pc' = "profile"
    /\ UNCHANGED <<pacerVars, toolVars>>
    /\ UNCHANGED <<clock, isRunning, paused, configVars, processedCount,
                   cycleVars, storeVars>>

\* a task whose catch block rethrows after markFailed: processQueue rejects
\* and the start command exits
TaskFailedEndingRun ==
    /\ queue' = markFailed(queue, nextItem.playerId, "error")
    /\ processedCount' = processedCount + 1
    /\ pc' = "off"

\* the task's catch block: markFailed, processedCount++
TaskFailed ==
    /\ queue' = markFailed(queue, nextItem.playerId, "error")
    /\ processedCount' = processedCount + 1
    /\ pc' = "top"

\* the task's normal end: markCompleted, processedCount++
TaskCompleted ==
    /\ queue' = markCompleted(queue, nextItem.playerId)
    /\ processedCount' = processedCount + 1
    /\ pc' = "top"

\* scrapePlayer step 1 and 2: fetch the profile page and upsert the player;
\* a failure is rethrown to the task
FetchProfile(ok, seasons) ==
    /\ pc = "profile"
    /\ IF ok
       THEN /\ players' = players \cup {nextItem.playerId}
            /\ seasonsLeft' = seasons
            /\ pc' = "season"
            /\ UNCHANGED <<queue, processedCount>>
       ELSE /\ TaskFailed
            /\ UNCHANGED <<players, seasonsLeft>>
    /\ UNCHANGED <<pacerVars, toolVars>>
    /\ UNCHANGED <<clock, isRunning, paused, configVars, nextItem, matchesLeft,
                   tournaments, matches>>

\* a scrapePlayer whose season catch block rethrows
FetchSeasonAbortingPlayer(ok, count) ==
    /\ pc = "season"
    /\ seasonsLeft > 0
    /\ IF ok
       THEN /\ IF count > 0
               THEN matchesLeft' = count /\ pc' = "match" /\ UNCHANGED seasonsLeft
               ELSE seasonsLeft' = seasonsLeft - 1 /\ UNCHANGED <<matchesLeft, pc>>
            /\ UNCHANGED <<queue, processedCount>>
       ELSE /\ TaskFailed
            /\ UNCHANGED <<seasonsLeft, matchesLeft>>
    /\ UNCHANGED <<pacerVars, toolVars>>
    /\ UNCHANGED <<clock, isRunning, paused, configVars, nextItem, storeVars>>

\* scrapePlayer step 3: fetch one season; a failure is logged and the next
\* season follows
FetchSeason(ok, count) ==
    /\ pc = "season"
    /\ seasonsLeft > 0
    /\ IF ok /\ count > 0
       THEN /\ matchesLeft' = count
            /\ pc' = "match"
            /\ UNCHANGED seasonsLeft
       ELSE /\ seasonsLeft' = seasonsLeft - 1
            /\ UNCHANGED <<matchesLeft, pc>>
    /\ UNCHANGED <<pacerVars, toolVars>>
    /\ UNCHANGED <<queueVars, isRunning, paused, configVars, processedCount,
                   nextItem, storeVars>>

\* scrapePlayer after the last season: updateLastScraped, then the task marks
\* the item completed; a failing update is rethrown to the task
FinishPlayer(ok) ==
    /\ pc = "season"
    /\ seasonsLeft = 0
    /\ IF ok THEN TaskCompleted ELSE TaskFailed
    /\ UNCHANGED <<pacerVars, toolVars>>
    /\ UNCHANGED <<clock, isRunning, paused, configVars, cycleVars, storeVars>>

\* ----------------------------------------------------- per-match persistence
\* scrapePlayer, lines 492-508: the two 'continue' gates before persistence
SkipsMatchIgnoringValidation(match) ==
    match.opponentId = NULL

SkipsMatch(match) ==
    \/ ~validateMatch(match).isValid
    \/ match.opponentId = NULL

\* a scrapePlayer that upserts and enqueues the opponent only
ParticipantsWithoutPartners(match) ==
    <<match.opponentId>>

\* the participants scrapePlayer upserts and enqueues, in the order of the code
Participants(match) ==
    <<match.opponentId>>
    \o (IF match.partnerId # NULL THEN <<match.partnerId>> ELSE <<>>)
    \o (IF match.opponentPartnerId # NULL THEN <<match.opponentPartnerId>> ELSE <<>>)

RECURSIVE EnqueueAll(_, _, _, _, _, _)
\* addPlayer(id, 0, false, nextDepth, playerId) for each participant in turn
EnqueueAll(rows, limit, ids, depth, sourcePlayerId, at) ==
    IF ids = <<>> THEN rows
    ELSE EnqueueAll(addPlayer(rows, limit, Head(ids), 0, FALSE, depth,
                              sourcePlayerId, at),
                    limit, Tail(ids), depth, sourcePlayerId, at)

FailPoints == {"none", "tournament", "opponent", "create"}

\* scrapePlayer step 4, the end of one iteration of the loop over the
\* season's matches: the next match, or the next season after the last one
NextMatch ==
    /\ matchesLeft' = matchesLeft - 1
    /\ IF matchesLeft = 1
       THEN pc' = "season" /\ seasonsLeft' = seasonsLeft - 1
       ELSE UNCHANGED <<pc, seasonsLeft>>
    /\ UNCHANGED <<pacerVars, toolVars>>
    /\ UNCHANGED <<clock, isRunning, paused, configVars, processedCount, nextItem>>

\* one iteration that ends at a 'continue': the match is logged and skipped
SkipMatch(row) ==
    /\ pc = "match"
    /\ matchesLeft > 0
    /\ RowMentions(row, nextItem.playerId)
    /\ SkipsMatch(ParsedMatchOf(row, nextItem.playerId))
    /\ UNCHANGED <<queue, storeVars>>
    /\ NextMatch

\* one iteration that passes both gates: tournament, participants (upsert
\* and addPlayer at depth + 1), match.  failAt names the call that throws a
\* persistence error (caught by the per-match catch), if any.
PersistMatch(row, failAt) ==
    /\ pc = "match"
    /\ matchesLeft > 0
    /\ RowMentions(row, nextItem.playerId)
    /\ ~SkipsMatch(ParsedMatchOf(row, nextItem.playerId))
    /\ LET playerId == nextItem.playerId
           match == ParsedMatchOf(row, playerId)
           nextDepth == nextItem.depth + 1
           data == MatchData(match, playerId)
           ids == Participants(match)
       IN /\ tournaments' = IF failAt = "tournament" THEN tournaments
                            ELSE tournaments \cup {match.tournamentId}
          /\ IF failAt \in {"tournament", "opponent"}
             THEN UNCHANGED <<queue, players>>
             ELSE /\ queue' = EnqueueAll(queue, maxDepth, ids, nextDepth,
                                         playerId, clock)
                  /\ players' = players \cup {ids[i] : i \in 1..Len(ids)}
          /\ IF failAt = "none" /\ ~createThrows(data, players', tournaments')
             THEN matches' = create(matches, data)
             ELSE UNCHANGED matches
    /\ NextMatch

\* ---------------------------------------------------------- cancellation
\* SIGINT handler of scrape.ts: queueManager.stop()
Sigint ==
    /\ pc # "off"
    /\ isRunning
    /\ isRunning' = FALSE
    /\ paused' = TRUE
    /\ UNCHANGED <<pacerVars, toolVars>>
    /\ UNCHANGED <<queueVars, pc, configVars, processedCount, cycleVars, storeVars>>

\* ... followed by process.exit(0); whatever the task held stays as it is
ProcessExit ==
    /\ pc # "off"
    /\ ~isRunning
    /\ pc' = "off"
    /\ UNCHANGED <<pacerVars, toolVars>>
    /\ UNCHANGED <<queueVars, isRunning, paused, configVars, processedCount,
                   cycleVars, storeVars>>

\* ------------------------------------------------- the frontier on its own
\* callers of the repository other than the crawl loop: each operation of
\* ScrapeQueueRepository on its own (the attempt counter is capped)
FrontierMarkProcessing(playerId) ==
    /\ \A r \in RowsOf(queue, playerId) : r.attempts < MaxAttempts
    /\ queue' = markProcessing(queue, playerId, clock)
    /\ UNCHANGED <<clock, loopVars, storeVars, pacerVars, toolVars>>

FrontierMarkCompleted(playerId) ==
    /\ queue' = markCompleted(queue, playerId)
    /\ UNCHANGED <<clock, loopVars, storeVars, pacerVars, toolVars>>

FrontierMarkFailed(playerId) ==
    /\ queue' = markFailed(queue, playerId, "error")
    /\ UNCHANGED <<clock, loopVars, storeVars, pacerVars, toolVars>>

\* const nextItem = await this.repo.getNextPending()
DequeueNext ==
    /\ IF getNextPending(queue) = {}
       THEN nextItem' = NoItem
       ELSE \E r \in getNextPending(queue) :
               nextItem' = [playerId |-> r.playerId, depth |-> r.depth]
    /\ UNCHANGED <<queueVars, pc, isRunning, paused, configVars, processedCount,
                   seasonsLeft, matchesLeft, storeVars, pacerVars, toolVars>>

\* -------------------------------------------------- the match store on its own
\* playerRepo.upsert / tournamentRepo.upsert
UpsertPlayer(id) ==
    /\ players' = players \cup {id}
    /\ UNCHANGED <<queueVars, loopVars, tournaments, matches, pacerVars, toolVars>>

UpsertTournament(id) ==
    /\ tournaments' = tournaments \cup {id}
    /\ UNCHANGED <<queueVars, loopVars, players, matches, pacerVars, toolVars>>

\* matchRepo.create(data): throws, or returns the existing row, or inserts
StoreCreate(data) ==
    /\ IF createThrows(data, players, tournaments)
       THEN UNCHANGED matches
       ELSE matches' = create(matches, data)
    /\ UNCHANGED <<queueVars, loopVars, players, tournaments, pacerVars, toolVars>>

\* ------------------------------------------------------ the limiter in time
\* ceil(units / Scale): the first whole millisecond not before the deadline
CeilMs(units) == (units + Scale - 1) \div Scale

\* waitForNextRequest up to its await: no wait, or setTimeout(waitTime)
WaitCall ==
    /\ waiting = "no"
    /\ dateNow <= StartTime + MaxElapsed
    /\ IF waitTime(limiter, dateNow) > 0
       THEN /\ waiting' = "sleeping"
            /\ UNCHANGED limiter
       ELSE /\ limiter' = [limiter EXCEPT !.lastRequestTime = dateNow]
            /\ waiting' = "fetching"
    /\ UNCHANGED <<dateNow, queueVars, loopVars, storeVars, toolVars>>

\* the timer fires, not before its delay has passed; waitForNextRequest
\* stamps lastRequestTime and returns, and the caller issues its request
WaitReturn(late) ==
    /\ waiting = "sleeping"
    /\ dateNow' = dateNow + CeilMs(waitTime(limiter, dateNow)) + late
    /\ limiter' = [limiter EXCEPT !.lastRequestTime = dateNow']
    /\ waiting' = "fetching"
    /\ UNCHANGED <<queueVars, loopVars, storeVars, toolVars>>

\* the request ends after duration ms: onSuccess(), or onError() in the catch
FetchDone(ok, duration) ==
    /\ waiting = "fetching"
    /\ ok => ReductionRepresentable(limiter)
    /\ ~ok => limiter.consecutiveErrors < MaxErrors
    /\ dateNow' = dateNow + duration
    /\ limiter' = IF ok THEN onSuccess(limiter) ELSE onError(limiter)
    /\ waiting' = "no"
    /\ UNCHANGED <<queueVars, loopVars, storeVars, toolVars>>

\* onError() for a failure that is no request (the per-season catch)
OtherError ==
    /\ waiting = "no"
    /\ limiter.consecutiveErrors < MaxErrors
    /\ limiter' = onError(limiter)
    /\ UNCHANGED <<dateNow, waiting, queueVars, loopVars, storeVars, toolVars>>

Reset ==
    /\ waiting = "no"
    /\ limiter' = reset(limiter)
    /\ UNCHANGED <<dateNow, waiting, queueVars, loopVars, storeVars, toolVars>>

\* ------------------------------------------------------ score interpreter
\* determineWinnerFromScore(scoreText, leftIsMe) is called (parseMatches
\* calls it for a row of the subject's page)
DetermineWinner ==
    /\ \A i \in DOMAIN interpreted.won :
          interpreted.won[i].leftPlayerIsMe # leftIsMe
    /\ interpreted' =
          [interpreted EXCEPT !.won =
              Append(@, [leftPlayerIsMe |-> leftIsMe,
                         result |-> determineWinnerFromScore(scoreText, leftIsMe)])]
    /\ UNCHANGED <<scoreText, leftIsMe>>
    /\ UNCHANGED <<queueVars, loopVars, storeVars, pacerVars, auditVars, validateVars>>

\* the same score read from the page of the player on the other side
SwapSide ==
    /\ leftIsMe' = ~leftIsMe
    /\ UNCHANGED <<scoreText, interpreted>>
    /\ UNCHANGED <<queueVars, loopVars, storeVars, pacerVars, auditVars, validateVars>>

\* parseScoreDetails(scoreText) is called
ParseDetails ==
    /\ interpreted.details = <<>>
    /\ interpreted' =
          [interpreted EXCEPT !.details = <<parseScoreDetails(scoreText)>>]
    /\ UNCHANGED <<scoreText, leftIsMe>>
    /\ UNCHANGED <<queueVars, loopVars, storeVars, pacerVars, auditVars, validateVars>>

\* ------------------------------------------- tournament integrity validator
\* the validator runs in a process of its own (the validate command); one
\* call at a time, each query a step of its own
AuditIdle == auditTodo = <<>>

\* a validator that also runs the clean-up of the matches table
AuditFrameWithCleanup ==
    /\ matches' = EmptyBag
    /\ UNCHANGED <<players, tournaments>>
    /\ UNCHANGED <<queueVars, loopVars, pacerVars, scoreVars, validateVars>>

\* the part of the state no validator method writes
AuditFrame ==
    UNCHANGED <<queueVars, loopVars, storeVars, pacerVars, scoreVars, validateVars>>

\* one validatePlayerTournament(playerId, tournamentId): the query and the
\* rules; its issues are appended to the issues collected before
RunPlayerTournament(playerId, tournamentId, collected) ==
    \E read \in ReadOrders(PlayerTournamentMatches(matches, playerId, tournamentId)) :
       LET issues == validatePlayerTournament(read, playerId, tournamentId)
       IN /\ audited' = [playerId |-> playerId, tournamentId |-> tournamentId,
                         playerMatches |-> read, issues |-> issues]
          /\ report' = collected \o issues

CallValidatePlayerTournament(playerId, tournamentId) ==
    /\ AuditIdle
    /\ RunPlayerTournament(playerId, tournamentId, <<>>)
    /\ UNCHANGED auditTodo
    /\ AuditFrame

CallValidatePlayer(playerId) ==
    /\ AuditIdle
    /\ auditTodo' \in Orders(PlayerTournamentItems(matches, playerId))
    /\ report' = <<>>
    /\ UNCHANGED audited
    /\ AuditFrame

CallValidateTournament(tournamentId) ==
    /\ AuditIdle
    /\ auditTodo' \in Orders(TournamentPlayerItems(matches, tournamentId))
    /\ report' = <<>>
    /\ UNCHANGED audited
    /\ AuditFrame

CallFindDuplicateMatches ==
    /\ AuditIdle
    /\ report' \in Orders(DuplicateIssues(matches))
    /\ UNCHANGED <<auditTodo, audited>>
    /\ AuditFrame

\* validateAll(options): findDuplicateMatches first, then the player, the
\* tournament, or the players with the most matches
CallValidateAll(playerId, tournamentId) ==
    /\ AuditIdle
    /\ report' \in Orders(DuplicateIssues(matches))
    /\ auditTodo' = IF playerId # NULL
                    THEN <<AuditItem("player", playerId, NULL)>>
                    ELSE IF tournamentId # NULL
                    THEN <<AuditItem("tournament", NULL, tournamentId)>>
                    ELSE <<AuditItem("top", NULL, NULL)>>
    /\ UNCHANGED audited
    /\ AuditFrame

\* the running call makes its next query
AuditNext ==
    /\ auditTodo # <<>>
    /\ LET item == Head(auditTodo)
       IN CASE item.kind = "playerTournament" ->
                 /\ RunPlayerTournament(item.playerId, item.tournamentId, report)
                 /\ auditTodo' = Tail(auditTodo)
            [] item.kind = "player" ->
                 /\ \E items \in Orders(PlayerTournamentItems(matches, item.playerId)) :
                       auditTodo' = items \o Tail(auditTodo)
                 /\ UNCHANGED <<audited, report>>
            [] item.kind = "tournament" ->
                 /\ \E items \in Orders(TournamentPlayerItems(matches, item.tournamentId)) :
                       auditTodo' = items \o Tail(auditTodo)
                 /\ UNCHANGED <<audited, report>>
            [] item.kind = "top" ->
                 /\ \E items \in TopPlayerOrders(matches) :
                       auditTodo' = items \o Tail(auditTodo)
                 /\ UNCHANGED <<audited, report>>
    /\ AuditFrame

\* MatchRepository.create while the store holds fewer than MaxStored matches
BoundedCreate(data) ==
    /\ BagCardinality(matches) < MaxStored
    /\ StoreCreate(data)

\* ---------------------------------------------------------- specifications
\* the operator commands that run beside the crawl
OperatorStep ==
    \/ \E playerId \in Players, force \in BOOLEAN :
          Enqueue(-1, playerId, 0, force, 0)
    \/ ResetQueue
    \/ ClearQueue

LoopStep ==
    \/ LoopExit
    \/ LoopPoll
    \/ LoopWake
    \/ LoopDequeue
    \/ TaskStart
    \/ \E ok \in BOOLEAN, seasons \in 0..MaxSeasons : FetchProfile(ok, seasons)
    \/ \E ok \in BOOLEAN, count \in 0..MaxMatches : FetchSeason(ok, count)
    \/ \E ok \in BOOLEAN : FinishPlayer(ok)
    \/ Sigint
    \/ ProcessExit

Next ==
    \/ OperatorStep
    \/ \E limit \in MaxDepthOptions, count \in MaxPlayersOptions,
          seed \in Players \cup {NULL} : StartRun(limit, count, seed)
    \/ LoopStep
    \/ \E row \in CrawlRows : SkipMatch(row)
    \/ \E row \in CrawlRows, failAt \in FailPoints : PersistMatch(row, failAt)

Spec == Init /\ [][Next]_vars

\* one start command after the other, nothing beside it: any player limit,
\* up to RunSeasons seasons of up to RunMatches matches
NextRun ==
    \/ \E limit \in MaxDepthOptions, count \in RunLimits,
          seed \in Players \cup {NULL} : StartRun(limit, count, seed)
    \/ LoopExit
    \/ LoopPoll
    \/ LoopWake
    \/ LoopDequeue
    \/ TaskStart
    \/ \E ok \in BOOLEAN, seasons \in 0..RunSeasons : FetchProfile(ok, seasons)
    \/ \E ok \in BOOLEAN, count \in 0..RunMatches : FetchSeason(ok, count)
    \/ \E ok \in BOOLEAN : FinishPlayer(ok)
    \/ Sigint
    \/ ProcessExit
    \/ \E row \in CrawlRows : SkipMatch(row)
    \/ \E row \in CrawlRows, failAt \in FailPoints : PersistMatch(row, failAt)

SpecRun == Init /\ [][NextRun]_vars

\* the steps of the start command's own process: the loop of processQueue
\* and the player cycle of its task
RunProgress ==
    \/ LoopExit
    \/ LoopPoll
    \/ LoopWake
    \/ LoopDequeue
    \/ TaskStart
    \/ \E ok \in BOOLEAN, seasons \in 0..RunSeasons : FetchProfile(ok, seasons)
    \/ \E ok \in BOOLEAN, count \in 0..RunMatches : FetchSeason(ok, count)
    \/ \E ok \in BOOLEAN : FinishPlayer(ok)
    \/ \E row \in CrawlRows : SkipMatch(row)
    \/ \E row \in CrawlRows, failAt \in FailPoints : PersistMatch(row, failAt)

\* the process keeps running: every await of the loop and of the task
\* settles (a request answers or times out, the 5 s timer fires), so the
\* process takes its next step whenever it has one, and the SIGINT handler
\* runs on to its process.exit; signals and new start commands come or do
\* not come
SpecRunFair ==
    Init /\ [][NextRun]_vars /\ WF_vars(RunProgress) /\ WF_vars(ProcessExit)

\* the steps of the process with seasons and matches as in Spec
PollingProgress ==
    \/ LoopExit
    \/ LoopPoll
    \/ LoopWake
    \/ LoopDequeue
    \/ TaskStart
    \/ \E ok \in BOOLEAN, seasons \in 0..MaxSeasons : FetchProfile(ok, seasons)
    \/ \E ok \in BOOLEAN, count \in 0..MaxMatches : FetchSeason(ok, count)
    \/ \E ok \in BOOLEAN : FinishPlayer(ok)
    \/ \E row \in CrawlRows : SkipMatch(row)
    \/ \E row \in CrawlRows, failAt \in FailPoints : PersistMatch(row, failAt)

\* the running process of SpecRunFair with an operator beside it who adds
\* players (start <id> in another terminal, without force)
NextPolling ==
    \/ \E count \in MaxPlayersOptions, seed \in Players \cup {NULL} :
          StartRun(-1, count, seed)
    \/ PollingProgress
    \/ Sigint
    \/ ProcessExit
    \/ \E playerId \in Players : Enqueue(-1, playerId, 0, FALSE, 0)

SpecPolling ==
    Init /\ [][NextPolling]_vars /\ WF_vars(PollingProgress) /\ WF_vars(ProcessExit)

\* an unbounded crawl over pages on which either player has won
NextBothPages ==
    \/ \E seed \in Players : StartRun(-1, -1, seed)
    \/ LoopStep
    \/ \E row \in BothWinnersRows : SkipMatch(row)
    \/ \E row \in BothWinnersRows, failAt \in FailPoints : PersistMatch(row, failAt)

SpecBothPages == Init /\ [][NextBothPages]_vars

\* an unbounded crawl over the pages of the four players of a doubles match
NextDoubles ==
    \/ \E seed \in DoublesPlayers : StartRun(-1, -1, seed)
    \/ LoopStep
    \/ \E row \in DoublesRows : SkipMatch(row)
    \/ \E row \in DoublesRows, failAt \in FailPoints : PersistMatch(row, failAt)

SpecDoubles == Init /\ [][NextDoubles]_vars

\* the steps of a run that nobody interrupts
ChainProgress ==
    \/ LoopPoll
    \/ LoopWake
    \/ LoopDequeue
    \/ TaskStart
    \/ \E ok \in BOOLEAN, seasons \in 0..MaxSeasons : FetchProfile(ok, seasons)
    \/ \E ok \in BOOLEAN, count \in 0..MaxMatches : FetchSeason(ok, count)
    \/ \E ok \in BOOLEAN : FinishPlayer(ok)
    \/ \E row \in ChainRows : SkipMatch(row)
    \/ \E row \in ChainRows, failAt \in FailPoints : PersistMatch(row, failAt)

\* one depth-bounded run from an empty queue, seeded with player 1, without
\* operator and without cancellation
NextChain ==
    \/ \E limit \in ChainDepths : StartRun(limit, -1, 1)
    \/ ChainProgress

SpecChain == Init /\ [][NextChain]_vars

\* ... whose process keeps running: its steps are weakly fair
SpecChainFair == Init /\ [][NextChain]_vars /\ WF_vars(ChainProgress)

\* an unlimited run that is never stopped, beside an operator who forces
\* re-scrapes (start <id> --force in another terminal); the steps of the
\* run are weakly fair
NextRescrape ==
    \/ StartRun(-1, -1, 1)
    \/ ChainProgress
    \/ \E playerId \in Players : Enqueue(-1, playerId, 0, TRUE, 0)

SpecRescrape == Init /\ [][NextRescrape]_vars /\ WF_vars(ChainProgress)

NextAuto ==
    \/ \E limit \in MaxDepthOptions, count \in MaxPlayersOptions,
          seed \in Players : StartRun(limit, count, seed)
    \/ LoopStep
    \/ \E row \in AutoRows : SkipMatch(row)
    \/ \E row \in AutoRows, failAt \in FailPoints : PersistMatch(row, failAt)

SpecAuto == Init /\ [][NextAuto]_vars

NextFrontier ==
    \/ Tick
    \/ \E limit \in MaxDepthOptions, playerId \in Players, priority \in Priorities,
          force \in BOOLEAN, depth \in DepthArgs :
          Enqueue(limit, playerId, priority, force, depth)
    \/ \E playerId \in Players : FrontierMarkProcessing(playerId)
    \/ \E playerId \in Players : FrontierMarkCompleted(playerId)
    \/ \E playerId \in Players : FrontierMarkFailed(playerId)
    \/ DequeueNext
    \/ ResetQueue
    \/ ClearQueue

SpecFrontier == Init /\ [][NextFrontier]_vars

NextStore ==
    \/ \E id \in Players : UpsertPlayer(id)
    \/ UpsertTournament(100)
    \/ \E data \in StoreRows : StoreCreate(data)

SpecStore == Init /\ [][NextStore]_vars

NextPacer ==
    \/ WaitCall
    \/ \E late \in TimerLateness : WaitReturn(late)
    \/ \E ok \in BOOLEAN, duration \in FetchDurations : FetchDone(ok, duration)
    \/ OtherError
    \/ Reset

InitAnyLimiter ==
    /\ InitCrawl
    /\ \E c \in LimiterConfigs : InitPacer(c[1], c[2], c[3])
    /\ InitTools

SpecPacer == InitAnyLimiter /\ [][NextPacer]_vars

\* the calls of onSuccess and onError in the order the requests end; neither
\* reads the clock or lastRequestTime, which stay as they are here
RequestSucceeds ==
    /\ ReductionRepresentable(limiter)
    /\ limiter' = onSuccess(limiter)
    /\ UNCHANGED <<dateNow, waiting, queueVars, loopVars, storeVars, toolVars>>

RequestFails ==
    /\ limiter.consecutiveErrors < MaxErrors
    /\ limiter' = onError(limiter)
    /\ UNCHANGED <<dateNow, waiting, queueVars, loopVars, storeVars, toolVars>>

NextRecovery ==
    \/ RequestSucceeds
    \/ RequestFails

InitRecovery ==
    /\ InitCrawl
    /\ \E c \in RecoveryConfigs : InitPacer(c[1], c[2], c[3])
    /\ InitTools

\* the crawl keeps issuing requests, so a request that can succeed is not
\* withheld for ever
SpecRecovery == InitRecovery /\ [][NextRecovery]_vars /\ WF_vars(RequestSucceeds)

AuditorStep ==
    \/ \E playerId \in Players : CallValidatePlayerTournament(playerId, 100)
    \/ \E playerId \in Players : CallValidatePlayer(playerId)
    \/ CallValidateTournament(100)
    \/ CallFindDuplicateMatches
    \/ \E playerId \in Players \cup {NULL}, tournamentId \in {NULL, 100} :
          CallValidateAll(playerId, tournamentId)
    \/ AuditNext

NextAudit ==
    \/ \E id \in Players : UpsertPlayer(id)
    \/ UpsertTournament(100)
    \/ \E data \in AuditRows : BoundedCreate(data)
    \/ AuditorStep

SpecAudit == Init /\ [][NextAudit]_vars

NextAuditedCrawl ==
    \/ \E seed \in Players : StartRun(-1, -1, seed)
    \/ LoopStep
    \/ \E row \in CrawlRows : SkipMatch(row)
    \/ \E row \in CrawlRows, failAt \in FailPoints : PersistMatch(row, failAt)
    \/ AuditorStep

SpecAuditedCrawl == Init /\ [][NextAuditedCrawl]_vars

\* the validator beside a crawl over pages on which either side has won
NextIngestAudit ==
    \/ \E seed \in Players : StartRun(-1, -1, seed)
    \/ LoopStep
    \/ \E row \in EitherSideRows : SkipMatch(row)
    \/ \E row \in EitherSideRows, failAt \in FailPoints : PersistMatch(row, failAt)
    \/ AuditorStep

SpecIngestAudit == Init /\ [][NextIngestAudit]_vars

NextScore ==
    \/ DetermineWinner
    \/ SwapSide
    \/ ParseDetails

InitAnyScore ==
    /\ InitCrawl
    /\ InitPacer(requestDelay, minDelay, maxDelay)
    /\ \E score \in ScoreInputs, side \in BOOLEAN : InitScore(score, side)
    /\ InitAudit
    /\ InitValidate(NoMatch)

SpecScore == InitAnyScore /\ [][NextScore]_vars

\* records handed to validateMatch in SpecValidate: every field of a
\* ParsedMatch that the validator reads takes a regular value and each of
\* the values it objects to
ValidatorScores ==
    {Score63_64, Score42_63, ScoreLong98, ScoreMalformed, ScoreEmpty, ScoreScr,
     ScoreStr(<<>>, "scr"), ScoreStr(<<BadTok(TRUE, 6, 0)>>, "scr."),
     ScoreStr(<<SetTok(8, 7, 5)>>, "")}
ValidatorInputs ==
    {[tournamentId |-> tid, tournamentName |-> name, tournamentDate |-> year,
      matchType |-> type, competitionType |-> comp, round |-> round,
      opponentId |-> opp, partnerId |-> mate, opponentPartnerId |-> mate,
      score |-> sc, isWalkover |-> wo, isWinner |-> TRUE,
      pointsEarned |-> pts] :
        tid \in {NULL, 100}, name \in {"", "Turnaj"},
        year \in {NULL, 1999, ThisYear},
        type \in {"singles", "doubles", "mixed"},
        comp \in {"individual", "league"}, round \in {"", "8>4", "kolo"},
        opp \in {NULL, 2, 1012345}, mate \in {NULL, 3},
        sc \in ValidatorScores, wo \in BOOLEAN, pts \in {-1, 10, 10001}}

\* scrapePlayer calls validateMatch(match) for the match at hand
ValidateRecord ==
    /\ verdict = <<>>
    /\ verdict' = <<validateMatch(candidate)>>
    /\ UNCHANGED candidate
    /\ UNCHANGED <<queueVars, loopVars, storeVars, pacerVars, scoreVars, auditVars>>

NextValidate == ValidateRecord

InitAnyMatch ==
    /\ InitCrawl
    /\ InitPacer(requestDelay, minDelay, maxDelay)
    /\ InitScore(ScoreEmpty, FALSE)
    /\ InitAudit
    /\ \E match \in ValidatorInputs : InitValidate(match)

SpecValidate == InitAnyMatch /\ [][NextValidate]_vars

\* ------------------------------------------------------------- properties
\* the status and the attempt count of a player's item ("none": no item)
StatusOf(rows, playerId) ==
    IF RowsOf(rows, playerId) = {} THEN "none"
    ELSE (CHOOSE r \in RowsOf(rows, playerId) : TRUE).status

AttemptsOf(rows, playerId) ==
    IF RowsOf(rows, playerId) = {} THEN 0
    ELSE (CHOOSE r \in RowsOf(rows, playerId) : TRUE).attempts

\* number of items a player has in the frontier
ItemsOf(rows, playerId) ==
    BagCardinality([r \in RowsOf(rows, playerId) |-> CopiesIn(r, rows)])

\* a step of the crawl process (every one moves a field of the loop)
IsLoopStep == loopVars' # loopVars

\* C1: after any sequence of frontier operations (enqueue with or without
\* force, markProcessing, markCompleted, markFailed, reset-queue, clear-queue)
\* the frontier holds at most one item per player, and an enqueue without
\* force of a player who has an item leaves the frontier as it is, with that
\* one item (a step that changes the frontier is no such enqueue).
C1_OneItemPerPlayer ==
    /\ [](\A p \in Players : ItemsOf(queue, p) <= 1)
    /\ [][\A p \in Players :
             \/ queue' = queue
             \/ ItemsOf(queue, p) = 0
             \/ ~\E limit \in MaxDepthOptions, priority \in Priorities,
                    depth \in DepthArgs :
                    Enqueue(limit, p, priority, FALSE, depth)]_vars

C1_Witness ==
    /\ \E r \in BagToSet(queue) :
          r.playerId = 1 /\ r.status = "completed" /\ r.createdAt < clock
    /\ \E r \in BagToSet(queue) : r.playerId = 2 /\ r.status = "pending"

\* C2: getNextPending changes no item; it yields no item exactly when no item
\* is pending; otherwise it yields a pending item such that no pending item
\* has a higher priority and none of the same priority was created earlier.
C2_DequeueReturnsBestPending ==
    [][DequeueNext =>
         /\ queue' = queue
         /\ (nextItem' = NoItem) <=> (\A r \in BagToSet(queue) : r.status # "pending")
         /\ nextItem' # NoItem =>
               \E r \in BagToSet(queue) :
                  /\ r.playerId = nextItem'.playerId
                  /\ r.status = "pending"
                  /\ \A s \in BagToSet(queue) :
                        s.status = "pending" =>
                           /\ s.priority <= r.priority
                           /\ s.priority = r.priority => s.createdAt >= r.createdAt]_vars

C2_Witness ==
    /\ nextItem.playerId = 2
    /\ \E r \in BagToSet(queue), s \in BagToSet(queue) :
          /\ r.playerId = 2 /\ r.status = "pending"
          /\ s.playerId = 1 /\ s.status = "pending"
          /\ r.priority > s.priority /\ r.createdAt > s.createdAt

C4_LoopTransitions ==
    [][IsLoopStep =>
         \A p \in Players :
            LET old == StatusOf(queue, p)
                new == StatusOf(queue', p)
            IN old # new =>
                  <<old, new>> \in {<<"none", "pending">>,
                                    <<"pending", "processing">>,
                                    <<"processing", "completed">>,
                                    <<"processing", "failed">>}]_vars

\* C5: there is no automatic retry.  While no operator command touches the
\* queue, a failed item stays failed, the loop takes only pending items, and
\* no player enters processing more than once, however often the player is
\* found again as an opponent.
C5_NoAutomaticRetry ==
    /\ [](\A p \in Players : AttemptsOf(queue, p) <= 1)
    /\ [][/\ \A p \in Players :
               StatusOf(queue, p) = "failed" => StatusOf(queue', p) = "failed"
          /\ LoopDequeue => StatusOf(queue, nextItem'.playerId) = "pending"]_vars

C5_Witness ==
    /\ StatusOf(queue, 1) = "failed"
    /\ StatusOf(queue, 2) = "completed"
    /\ matches # EmptyBag
    /\ pc = "wait"

\* C6: after any sequence of MatchRepository.create calls no two rows of
\* table matches share the key (tournament, round, player1, player2, match
\* type), and a call whose key exists leaves the table as it is.
C6_OneRowPerMatchKey ==
    /\ [](\A r \in BagToSet(matches) :
             /\ CopiesIn(r, matches) = 1
             /\ \A t \in BagToSet(matches) : MatchKey(t) = MatchKey(r) => t = r)
    /\ [][\A data \in StoreRows :
             (StoreCreate(data)
              /\ \E r \in BagToSet(matches) : MatchKey(r) = MatchKey(data))
             => matches' = matches]_vars

C6_Witness ==
    /\ \E r \in BagToSet(matches) : r.score = Score63_64
    /\ \E r \in BagToSet(matches) : r.score = Score46_76_63
    /\ BagCardinality(matches) >= 4

\* C7: a ParsedMatch for which validateMatch reports an error is not
\* persisted: processing it changes neither table matches nor tournaments nor
\* players nor the queue.
C7_InvalidMatchNotPersisted ==
    [][pc = "match" =>
         \A row \in AutoRows :
            (/\ RowMentions(row, nextItem.playerId)
             /\ ~validateMatch(ParsedMatchOf(row, nextItem.playerId)).isValid
             /\ \/ SkipMatch(row)
                \/ \E failAt \in FailPoints : PersistMatch(row, failAt))
            => UNCHANGED <<matches, tournaments, players, queue>>]_vars

C7_Witness ==
    /\ pc = "season" /\ seasonsLeft = 0
    /\ nextItem.playerId = 1
    /\ matches = EmptyBag /\ tournaments = {} /\ players = {1}
    /\ StatusOf(queue, 1) = "processing"

\* C8: a ParsedMatch with zero validation errors is stored when no
\* persistence call fails: after it is processed, table matches holds a row
\* of its tournament, round and match type with the scraped player in it.
C8_ValidMatchStored ==
    [][\A row \in AutoRows :
          (/\ pc = "match"
           /\ RowMentions(row, nextItem.playerId)
           /\ validateMatch(ParsedMatchOf(row, nextItem.playerId)).isValid
           /\ (SkipMatch(row) \/ PersistMatch(row, "none")))
          => \E r \in BagToSet(matches') :
                /\ r.tournamentId = row.tournamentId
                /\ r.round = row.round
                /\ r.matchType = row.matchType
                /\ nextItem.playerId \in {r.player1Id, r.player2Id}]_vars

C10_DelayWithinBounds ==
    /\ limiter.minDelay * Scale <= limiter.currentDelay
    /\ limiter.currentDelay <= limiter.maxDelay * Scale

\* the sets of a score that show more games on the given side
SetsWithMoreGames(score, side) ==
    {i \in DOMAIN score.sets :
        IF side = "left" THEN score.sets[i].g1 > score.sets[i].g2
        ELSE score.sets[i].g2 > score.sets[i].g1}

\* a score of at least one set, every element a well-formed set, no marker
IsPlainScore(score) ==
    /\ score.marker = ""
    /\ score.sets # <<>>
    /\ \A i \in DOMAIN score.sets : score.sets[i].fmt

\* C11: for a score of at least one set and no walkover marker, what
\* determineWinnerFromScore returns is TRUE exactly when the subject's side
\* won strictly more sets than the other side, on whichever side the subject
\* is.
C11_SubjectWonIffStrictMajority ==
    \A i \in DOMAIN interpreted.won :
       IsPlainScore(scoreText) =>
          LET call == interpreted.won[i]
              mine == IF call.leftPlayerIsMe THEN "left" ELSE "right"
              other == IF call.leftPlayerIsMe THEN "right" ELSE "left"
          IN call.result <=>
                Cardinality(SetsWithMoreGames(scoreText, mine))
                   > Cardinality(SetsWithMoreGames(scoreText, other))

C13_SetCreditedToSideWithMoreGames ==
  /\ \A k \in DOMAIN interpreted.won :
       (IsPlainScore(scoreText) /\ interpreted.won[k].leftPlayerIsMe)
       => (interpreted.won[k].result <=>
              Cardinality(SetsWithMoreGames(scoreText, "left"))
                 > Cardinality(SetsWithMoreGames(scoreText, "right")))
  /\ \A k \in DOMAIN interpreted.details :
       LET d == interpreted.details[k]
       IN (/\ scoreText.marker = ""
           /\ \A i \in DOMAIN scoreText.sets : scoreText.sets[i].colon)
          => /\ Len(d.sets) = Len(scoreText.sets)
             /\ \A i \in DOMAIN scoreText.sets :
                   LET t == scoreText.sets[i]
                   IN t.fmt =>
                        /\ d.sets[i].winner = "left" <=> t.g1 > t.g2
                        /\ d.sets[i].winner = "right" <=> t.g2 > t.g1
                        /\ d.sets[i].winner = "tie" <=> t.g1 = t.g2
             /\ IsPlainScore(scoreText) =>
                   /\ d.leftSetsWon = Cardinality(SetsWithMoreGames(scoreText, "left"))
                   /\ d.rightSetsWon = Cardinality(SetsWithMoreGames(scoreText, "right"))

C13_Witness ==
    /\ interpreted.details # <<>>
    /\ scoreText = ScoreStr(<<SetTok(2, 1, 5), SetTok(1, 1, NoTb)>>, "")
    /\ interpreted.details[1].leftSetsWon = 1
    /\ interpreted.details[1].rightSetsWon = 0

\* C14: in a call validatePlayerTournament(p, t), a knockout match m of the
\* rows read is named by a RULE_3_NO_MATCH_AFTER_LOSS error exactly when
\* another knockout match of the rows read has a winner other than p and a
\* greater round order than m; there is one such error for each of these
\* matches and no other, whatever the order the rows were read in.
C14_NoMatchAfterLossExactly ==
    LET read == audited.playerMatches
        p == audited.playerId
        knockout(i) == getRoundOrder(read[i].round) > 0
        offending ==
            {i \in DOMAIN read :
                /\ knockout(i)
                /\ \E j \in DOMAIN read :
                      /\ j # i
                      /\ knockout(j)
                      /\ read[j].winnerId # p
                      /\ getRoundOrder(read[j].round) > getRoundOrder(read[i].round)}
        errors == SelectSeq(audited.issues,
                            LAMBDA x : x.rule = "RULE_3_NO_MATCH_AFTER_LOSS")
    IN /\ \A k \in DOMAIN errors :
             \E i \in DOMAIN read : errors[k].matches = <<read[i]>>
       /\ \A i \in DOMAIN read :
             Cardinality({k \in DOMAIN errors : errors[k].matches = <<read[i]>>})
                = IF i \in offending THEN 1 ELSE 0

\* C15: no step of validateAll, validatePlayer, validateTournament,
\* validatePlayerTournament or findDuplicateMatches, and no step that changes
\* what the validator has collected, changes the players, the tournaments,
\* the matches, the scrape queue or the position of the crawl loop, at
\* whatever point of the crawl it is taken.
C15_AuditorIsReadOnly ==
    [][(AuditorStep \/ auditVars' # auditVars)
          => UNCHANGED <<queueVars, loopVars, storeVars>>]_vars

\* the validator has read a stored match and reported on it while a player
\* cycle of the crawl is between two matches of a season
C15_Witness ==
    /\ pc = "match"
    /\ matches # EmptyBag
    /\ audited.playerMatches # <<>>
    /\ report # <<>>
    /\ \E p \in Players : ItemsOf(queue, p) = 1

\* the player cycle goes on after a step: same item, still processing in the
\* queue, not counted as processed
CycleGoesOn ==
    /\ nextItem' = nextItem
    /\ StatusOf(queue', nextItem.playerId) = "processing"
    /\ processedCount' = processedCount
    /\ pc' \in {"season", "match"}

\* a persistence error in one match of the season
MatchFailure ==
    \E row \in CrawlRows, failAt \in FailPoints \ {"none"} : PersistMatch(row, failAt)

\* a season whose fetch failed
SeasonFailure ==
    \E count \in 0..RunMatches : FetchSeason(FALSE, count)

\* after a failed match the loop is at the next match of the season, or at
\* the next season after the last match; after a failed season it is at the
\* next season
FailuresAreSkipped ==
    /\ MatchFailure =>
          /\ CycleGoesOn
          /\ matchesLeft' = matchesLeft - 1
          /\ IF matchesLeft > 1
             THEN pc' = "match" /\ seasonsLeft' = seasonsLeft
             ELSE pc' = "season" /\ seasonsLeft' = seasonsLeft - 1
    /\ SeasonFailure =>
          /\ CycleGoesOn
          /\ pc' = "season"
          /\ seasonsLeft' = seasonsLeft - 1

\* a step that ends a player cycle whose profile fetch succeeded
CycleEnds ==
    /\ pc \in {"season", "match"}
    /\ pc' = "top"

ProfileFailure ==
    \E seasons \in 0..RunSeasons : FetchProfile(FALSE, seasons)

\* C17: when the profile fetch of a player cycle throws, the player's item
\* becomes failed and carries the error message, the run keeps running and
\* is back at the top of its loop; and at the top of the loop of a running
\* run below its player limit, with an item pending, the next step of the
\* loop takes the item getNextPending returns, which the task then marks
\* processing.
C17_FailedPlayerDoesNotStopRun ==
    [][/\ ProfileFailure =>
             /\ \A r \in RowsOf(queue', nextItem.playerId) :
                   r.status = "failed" /\ r.errorMessage = "error"
             /\ RowsOf(queue', nextItem.playerId) # {}
             /\ \A q \in Players \ {nextItem.playerId} :
                   RowsOf(queue', q) = RowsOf(queue, q)
             /\ isRunning' = isRunning
             /\ paused' = paused
             /\ pc' = "top"
       /\ (LoopContinues /\ PendingRows(queue) # {} /\ pc' # pc) =>
             /\ pc' = "claimed"
             /\ \E r \in getNextPending(queue) : nextItem'.playerId = r.playerId
       /\ (pc = "claimed" /\ pc' \notin {"claimed", "off"}) =>
             /\ pc' = "profile"
             /\ StatusOf(queue', nextItem.playerId) = "processing"]_vars

\* player 1 has failed in this run and the run is processing player 2
C17_Witness ==
    /\ StatusOf(queue, 1) = "failed"
    /\ processedCount = 1
    /\ isRunning
    /\ pc = "profile"
    /\ nextItem.playerId = 2
    /\ StatusOf(queue, 2) = "processing"

\* the items a step moves from pending to processing, and from processing
\* to completed or failed
EnteringProcessing ==
    {p \in Players : /\ StatusOf(queue, p) = "pending"
                     /\ StatusOf(queue', p) = "processing"}

ReachingTerminal ==
    {p \in Players : /\ StatusOf(queue, p) = "processing"
                     /\ StatusOf(queue', p) \in {"completed", "failed"}}

\* C18: the count of a run goes up by one exactly in the steps in which an
\* item reaches completed or failed, and only a new run resets it; with
\* maxPlayers = n >= 0 an item is dequeued or enters processing only while
\* the count is below n, so the count plus the item in processing never
\* exceeds n and with n = 0 nothing is dequeued; once the count has reached
\* n the loop only exits; with maxPlayers = -1 a running loop never exits.
C18_PlayerLimitBoundsRun ==
    /\ [](pc # "off" /\ maxPlayers >= 0 =>
            /\ processedCount <= maxPlayers
            /\ pc \in {"claimed", "profile", "season", "match"} =>
                  processedCount < maxPlayers)
    /\ [][/\ EnteringProcessing # {} =>
                /\ Cardinality(EnteringProcessing) = 1
                /\ pc = "claimed"
                /\ pc' = "profile"
          /\ pc # "off" =>
                /\ processedCount' = processedCount + Cardinality(ReachingTerminal)
                /\ Cardinality(ReachingTerminal) <= 1
          /\ pc = "off" => processedCount' = 0 \/ processedCount' = processedCount
          /\ (EnteringProcessing # {} \/ (pc = "top" /\ pc' = "claimed")) =>
                (maxPlayers >= 0 => processedCount < maxPlayers)
          /\ (/\ pc = "top"
              /\ maxPlayers >= 0
              /\ processedCount >= maxPlayers
              /\ pc' # pc) => pc' = "off"
          /\ (pc = "top" /\ isRunning /\ maxPlayers = -1 /\ pc' # pc) =>
                pc' \in {"wait", "claimed"}]_vars

\* a run limited to one player has counted one failed item and is at the
\* top of its loop while another item is pending
C18_Witness ==
    /\ pc = "top"
    /\ isRunning
    /\ maxPlayers = 1
    /\ processedCount = 1
    /\ StatusOf(queue, 1) = "failed"
    /\ StatusOf(queue, 2) = "pending"

\* C19: a run with maxPlayers = n >= 0 eventually returns from
\* processQueue, whatever the queue holds.
C19_BoundedRunReturns ==
    (pc # "off" /\ maxPlayers >= 0) ~> (pc = "off")

\* C20: the step in which stop() is called leaves every item of the queue
\* as it is, the item in processing included; and from a state in which
\* stop() has been called (the PQueue is paused) no step moves an item from
\* pending to processing or from processing back to pending.
C20_CancellationIsCooperative ==
    [][/\ (isRunning /\ ~isRunning') => queue' = queue
       /\ paused =>
             /\ EnteringProcessing = {}
             /\ \A p \in Players :
                   StatusOf(queue, p) = "processing" => StatusOf(queue', p) # "pending"]_vars

\* stop() was called during the cycle of player 1: the item is still
\* processing, the cycle is at a season, and player 2 is pending
C20_Witness ==
    /\ paused
    /\ ~isRunning
    /\ pc = "season"
    /\ nextItem.playerId = 1
    /\ StatusOf(queue, 1) = "processing"
    /\ StatusOf(queue, 2) = "pending"

\* C21: in a run that is not stopped and has no player limit, a step of the
\* loop taken while no item is pending only moves between the poll and the
\* 5 s sleep and leaves the run running; and an item that is pending during
\* such a run is eventually dequeued and marked processing, unless the run
\* is stopped first.
C21_UnboundedRunKeepsPolling ==
    /\ [][(/\ pc \in {"top", "wait"}
           /\ isRunning
           /\ maxPlayers < 0
           /\ PendingRows(queue) = {}
           /\ pc' # pc) => (pc' \in {"top", "wait"} /\ isRunning')]_vars
    /\ \A p \in Players :
          (isRunning /\ maxPlayers < 0 /\ StatusOf(queue, p) = "pending")
             ~> (StatusOf(queue, p) = "processing" \/ ~isRunning)

\* an operator has enqueued player 1 while the unbounded run, which found
\* the queue empty, sleeps
C21_Witness ==
    /\ pc = "wait"
    /\ isRunning
    /\ maxPlayers < 0
    /\ processedCount = 0
    /\ StatusOf(queue, 1) = "pending"
    /\ StatusOf(queue, 2) = "none"

\* C22: every match row the crawl has persisted has player1Id < player2Id.
C22_PlayerOrderNormalised ==
    \A r \in BagToSet(matches) : r.player1Id < r.player2Id

\* C23: an enqueue without force of a player who has an item, in whatever
\* status, leaves the item with the same status, priority, attempt count,
\* depth, origin, last-attempt time and error message (a step that changes
\* one of them is no such enqueue), and leaves it the player's only item.
C23_EnqueueWithoutForceLeavesItem ==
    [][\A p \in Players :
          \/ /\ ItemsOf(queue', p) = ItemsOf(queue, p)
             /\ \A r \in RowsOf(queue, p) : \E t \in RowsOf(queue', p) :
                   /\ t.status = r.status
                   /\ t.priority = r.priority
                   /\ t.attempts = r.attempts
                   /\ t.depth = r.depth
                   /\ t.sourcePlayerId = r.sourcePlayerId
                   /\ t.lastAttemptAt = r.lastAttemptAt
                   /\ t.errorMessage = r.errorMessage
          \/ RowsOf(queue, p) = {}
          \/ ~\E limit \in MaxDepthOptions, priority \in Priorities,
                 depth \in DepthArgs :
                 Enqueue(limit, p, priority, FALSE, depth)]_vars

\* items in each of the four states exist over time: here player 1 has
\* failed after one attempt and player 2 is processing, both enqueued
\* earlier with priority 1
C23_Witness ==
    /\ \E r \in RowsOf(queue, 1) :
          /\ r.status = "failed" /\ r.attempts = 1 /\ r.priority = 1
          /\ r.errorMessage = "error" /\ r.createdAt < clock
    /\ \E r \in RowsOf(queue, 2) :
          r.status = "processing" /\ r.priority = 1 /\ r.lastAttemptAt # NULL

\* C24: whatever the queue holds, addPlayer called on a QueueManager with
\* maxDepth >= 0 and a depth above maxDepth returns the queue as it is, with
\* or without force and whether or not the player has an item; addPlayer
\* called on a QueueManager with maxDepth = -1 does what
\* ScrapeQueueRepository.add does, whatever the depth.
C24_DepthBeyondMaxDepthSkipped ==
    \A p \in Players, priority \in Priorities, force \in BOOLEAN,
       depth \in DepthArgs, origin \in Players \cup {NULL} :
       /\ \A limit \in MaxDepthOptions :
             (limit >= 0 /\ depth > limit) =>
                addPlayer(queue, limit, p, priority, force, depth, origin, clock)
                   = queue
       /\ addPlayer(queue, -1, p, priority, force, depth, origin, clock)
             = add(queue, p, priority, force, clock)

\* a client with maxDepth 0 has asked for player 1 at depth 1: the player row
\* exists, the queue holds no item for it
C24_Witness ==
    /\ 1 \in players
    /\ StatusOf(queue, 1) = "none"
    /\ StatusOf(queue, 2) = "completed"
    /\ clock = 1

\* C25: a step that is a markProcessing of a player's item leaves the item
\* processing, with one attempt more and the attempt time of the call, all
\* three at once; every other step that keeps the item (markCompleted,
\* markFailed, enqueue with or without force, reset-queue) leaves its
\* attempt count and attempt time as they are and does not make it
\* processing; a new item starts pending with no attempt.  So in every state
\* an item has attempts exactly when it has an attempt time, and a
\* processing item has at least one.
C25_AttemptsCountEntriesIntoProcessing ==
    /\ [](\A r \in BagToSet(queue) :
            /\ r.attempts >= 0
            /\ r.attempts = 0 <=> r.lastAttemptAt = NULL
            /\ r.status = "processing" => r.attempts >= 1)
    /\ [][\A p \in Players :
             /\ \A t \in RowsOf(queue', p) :
                   RowsOf(queue, p) = {} =>
                      t.attempts = 0 /\ t.status = "pending"
             /\ \A r \in RowsOf(queue, p), t \in RowsOf(queue', p) :
                   IF FrontierMarkProcessing(p)
                   THEN /\ t.status = "processing"
                        /\ t.attempts = r.attempts + 1
                        /\ t.lastAttemptAt = clock
                   ELSE /\ t.attempts = r.attempts
                        /\ t.lastAttemptAt = r.lastAttemptAt
                        /\ t.status = "processing" => r.status = "processing"]_vars

\* player 1 was processed once, failed and was reset: pending again, with
\* its one attempt
C25_Witness ==
    \E r \in RowsOf(queue, 1) :
       /\ r.status = "pending"
       /\ r.attempts = 1
       /\ r.lastAttemptAt # NULL
       /\ r.errorMessage = NoError

\* a call of onError: the catch of a request, or the per-season catch
ErrorRecorded ==
    \/ \E duration \in FetchDurations : FetchDone(FALSE, duration)
    \/ OtherError

\* 2^min(n, 4) for an error streak n >= 1
BackoffFactor(n) ==
    CASE n = 1 -> 2 [] n = 2 -> 4 [] n = 3 -> 8 [] OTHER -> 16

\* C26: every onError sets the success streak to 0, adds one to the error
\* streak, and sets currentDelay to the smaller of maxDelay and baseDelay *
\* 2^min(new error streak, 4); the new delay exceeds neither 16 * baseDelay
\* nor maxDelay.
C26_ErrorBackoff ==
    [][ErrorRecorded =>
          LET streak == limiter.consecutiveErrors + 1
              backoff == limiter.baseDelay * BackoffFactor(streak)
          IN /\ limiter'.consecutiveSuccesses = 0
             /\ limiter'.consecutiveErrors = streak
             /\ limiter'.currentDelay =
                   (IF backoff < limiter.maxDelay THEN backoff
                    ELSE limiter.maxDelay) * Scale
             /\ limiter'.currentDelay % Scale = 0
             /\ limiter'.currentDelay \div Scale <= 16 * limiter.baseDelay
             /\ limiter'.currentDelay \div Scale <= limiter.maxDelay
             /\ limiter'.baseDelay = limiter.baseDelay
             /\ limiter'.maxDelay = limiter.maxDelay]_vars

\* the fifth error in a row of a limiter with base 100 ms: 16 times the base
C26_Witness ==
    /\ limiter.baseDelay = 100
    /\ limiter.consecutiveErrors = 5
    /\ limiter.currentDelay = 1600 * Scale
    /\ limiter.consecutiveSuccesses = 0

\* a call of onSuccess: a request has answered
SuccessRecorded ==
    \E duration \in FetchDurations : FetchDone(TRUE, duration)

\* C27: the success streak is 0, 1 or 2; an onSuccess that is the first or
\* the second of its streak adds one to the streak and leaves currentDelay
\* as it is; the third sets currentDelay to the larger of minDelay and 0.9
\* times currentDelay and the streak to 0.  Errors, reset and reductions
\* start a new streak.
C27_ReductionOnThirdSuccess ==
    /\ [](limiter.consecutiveSuccesses \in 0..2)
    /\ [][/\ SuccessRecorded =>
                LET streak == limiter.consecutiveSuccesses + 1
                    tenth == limiter.currentDelay \div 10
                    floor == limiter.minDelay * Scale
                IN /\ limiter'.consecutiveErrors = 0
                   /\ IF streak = 3
                      THEN /\ limiter'.consecutiveSuccesses = 0
                           /\ limiter'.currentDelay =
                                 IF limiter.currentDelay % 10 = 0 /\ tenth * 9 > floor
                                 THEN tenth * 9
                                 ELSE floor
                      ELSE /\ limiter'.consecutiveSuccesses = streak
                           /\ limiter'.currentDelay = limiter.currentDelay
          /\ (ErrorRecorded \/ Reset) => limiter'.consecutiveSuccesses = 0]_vars

\* six successes in a row from the configured 500 ms: two reductions
C27_Witness ==
    /\ limiter.baseDelay = 500
    /\ limiter.currentDelay = 405 * Scale
    /\ limiter.consecutiveSuccesses = 0
    /\ limiter.consecutiveErrors = 0

\* C28: for a score parseScore flags as a walkover (it contains a marker of
\* WALKOVER_PATTERNS), determineWinnerFromScore returns TRUE exactly when
\* the subject is on the left.
C28_WalkoverGoesToLeftSide ==
    \A i \in DOMAIN interpreted.won :
       parseScoreIsWalkover(scoreText) =>
          (interpreted.won[i].result <=> interpreted.won[i].leftPlayerIsMe)

\* the elements of a score that validateScore reads as sets: none when the
\* score carries a walkover notation the validator knows
SetsRead(score) ==
    IF score.marker \in ValidatorWalkoverMarkers THEN <<>> ELSE SplitSets(score)

\* an element that is no "games:games" with an optional "(tiebreak)"
MalformedSet(t) == ~t.fmt

\* a set without tiebreak notation that went beyond seven games and was
\* won by less than two
WonByLessThanTwo(t) ==
    /\ t.fmt /\ t.tb = NoTb
    /\ (t.g1 > 7 \/ t.g2 > 7)
    /\ t.g1 - t.g2 < 2 /\ t.g2 - t.g1 < 2

\* the reasons for rejection that do not concern the sets of the score
RejectedBesidesSets(match) ==
    \/ match.tournamentId = NULL
    \/ match.tournamentDate = NULL
    \/ match.opponentId = NULL /\ ~match.isWalkover
    \/ match.matchType \notin {"singles", "doubles"}
    \/ match.competitionType \notin {"individual", "team"}
    \/ match.round = ""
    \/ IsEmptyScore(match.score)
    \/ match.pointsEarned < 0

\* C29 as stated: validateMatch reports isValid = false exactly when the
\* tournament id or date is missing, the opponent id is missing on a
\* non-walkover record, the match or competition kind is unknown, the round
\* label or the score is empty, the score contains a malformed set, or the
\* points are negative.
C29_RejectedExactlyForListedReasons ==
    verdict # <<>> =>
       (~verdict[1].isValid <=>
           \/ RejectedBesidesSets(candidate)
           \/ \E i \in DOMAIN candidate.score.sets :
                 MalformedSet(candidate.score.sets[i])
           \/ /\ candidate.score.marker \notin ValidatorWalkoverMarkers \cup {""}
              /\ candidate.score.sets = <<>>)

\* C29, amended: ... the score, unless it carries a walkover notation,
\* contains a malformed set or a set beyond seven games won by less than
\* two ...; every other finding leaves isValid true.
C29_RejectedExactlyForListedReasonsOrMargin ==
    verdict # <<>> =>
       (~verdict[1].isValid <=>
           \/ RejectedBesidesSets(candidate)
           \/ \E i \in DOMAIN SetsRead(candidate.score) :
                 \/ MalformedSet(SetsRead(candidate.score)[i])
                 \/ WonByLessThanTwo(SetsRead(candidate.score)[i]))

\* a record with a missing partner, an unknown round, an implausible year,
\* a walkover-flag mismatch, very large points and an unusual set score was
\* validated: each is a warning, and the record is valid
C29_Witness ==
    /\ verdict # <<>>
    /\ verdict[1].isValid
    /\ {"Doubles match missing partner ID",
        "Unusual round format",
        "Unusual tournament year", "Walkover flag mismatch",
        "Unusually high points earned", "Set ended before 6 games"}
          \subseteq verdict[1].warnings

\* one iteration of scrapePlayer's loop over the matches of a season
MatchIteration == pc = "match" /\ matchesLeft' # matchesLeft

\* C30: the items an iteration of the Orchestrator adds to the queue carry
\* the depth of the item being processed plus one, hence never depth 0, and
\* the current subject as origin; the items that existed stay as they were.
C30_DiscoveriesCarryDepthAndOrigin ==
    [][MatchIteration =>
          /\ \A r \in BagToSet(queue) : CopiesIn(r, queue') = CopiesIn(r, queue)
          /\ \A r \in BagToSet(queue') \ BagToSet(queue) :
                /\ r.depth = nextItem.depth + 1
                /\ r.depth # 0
                /\ r.sourcePlayerId = nextItem.playerId]_vars

\* the references of a matches row: its players, its partners if any, its
\* winner
PlayerRefs(r) ==
    {r.player1Id, r.player2Id, r.winnerId}
    \cup ({r.player1PartnerId, r.player2PartnerId} \ {NULL})

\* the rows the season pages of the model show
AllPageRows == CrawlRows \cup BothWinnersRows \cup AutoRows \cup DoublesRows

\* the rows an iteration for the current subject hands on to persistence
RowsToPersist ==
    {row \in AllPageRows :
        /\ RowMentions(row, nextItem.playerId)
        /\ ~SkipsMatch(ParsedMatchOf(row, nextItem.playerId))}

\* C31: in every iteration of the Orchestrator over a match, the subject,
\* the participants it upserts and the tournament it upserts cover every
\* reference of the row it is about to write, and every row it inserts
\* references only players and a tournament that are in the store.
C31_ReferencesExistBeforeMatchIsWritten ==
    [][MatchIteration =>
          /\ \A row \in RowsToPersist :
                LET match == ParsedMatchOf(row, nextItem.playerId)
                    ids == Participants(match)
                IN PlayerRefs(MatchData(match, nextItem.playerId))
                      \subseteq players \cup {ids[i] : i \in DOMAIN ids}
          /\ \A r \in BagToSet(matches') :
                CopiesIn(r, matches') > CopiesIn(r, matches) =>
                   /\ PlayerRefs(r) \subseteq players'
                   /\ r.tournamentId \in tournaments']_vars

\* a doubles row with both partners has been written
C31_Witness ==
    \E r \in BagToSet(matches) :
       /\ r.matchType = "doubles"
       /\ r.player1PartnerId # NULL /\ r.player2PartnerId # NULL
       /\ PlayerRefs(r) \subseteq players
       /\ r.tournamentId \in tournaments

\* C32 (its consequence): in a run with maxDepth = d >= 0 from an empty
\* queue seeded with player 1, no player more than d hops from the seed
\* enters processing.
C32_NoPlayerBeyondMaxDepthProcessed ==
    \A r \in BagToSet(queue) :
       (maxDepth >= 0 /\ r.attempts > 0) => HopsFromSeed(r.playerId) <= maxDepth

\* C33: the one doubles match that the season pages of its four players
\* show is stored as one row at most, however many of them were crawled.
C33_OneRowPerMatchAcrossPerspectives ==
    BagCardinality(matches) <= 1

\* a step of the reset-queue command while no run is alive
ResetAfterRun ==
    /\ pc = "off" /\ pc' = "off"
    /\ queue' # queue
    /\ queue' = BagOfAll(LAMBDA r : IF r.status = "failed"
                          THEN [r EXCEPT !.status = "pending",
                                         !.errorMessage = NoError]
                          ELSE r, queue)

\* C34: after reset-queue, run once the cancelled or crashed run is gone,
\* no item is left in processing (each is pending again).
C34_ResetRecoversProcessingItems ==
    [][ResetAfterRun =>
          \A r \in BagToSet(queue') : r.status # "processing"]_vars

\* C35: while the run is alive, an item that is pending (as it is after a
\* forced enqueue, whenever that was issued) eventually enters processing.
C35_ForcedEnqueueStartsNewCycle ==
    \A playerId \in Players :
       (pc # "off" /\ StatusOf(queue, playerId) = "pending")
          ~> (StatusOf(queue, playerId) = "processing")

\* C36 (its second half, for a limiter configured with minDelay <=
\* baseDelay <= maxDelay): no onError leaves currentDelay lower than it was
\* before the call.
C36_ErrorNeverLowersDelay ==
    [][(/\ ErrorRecorded
        /\ limiter.minDelay <= limiter.baseDelay
        /\ limiter.baseDelay <= limiter.maxDelay)
          => limiter'.currentDelay >= limiter.currentDelay]_vars

\* C37: if from some point on no request fails, currentDelay eventually is
\* minDelay and stays minDelay.
C37_SuccessesRecoverMinDelay ==
    <>[][~RequestFails]_vars
       => <>[](limiter.currentDelay = limiter.minDelay * Scale)

\* a limiter whose base is above the minimum has come down to minDelay and
\* is in the middle of a further success streak
C37_Witness ==
    /\ limiter.currentDelay = limiter.minDelay * Scale
    /\ limiter.baseDelay > limiter.minDelay
    /\ limiter.consecutiveErrors = 0
    /\ limiter.consecutiveSuccesses = 2

\* the record the Extractor produces for a singles row that carries the
\* score at hand, read from the page of the left or of the right player
ExtractedRecord ==
    ParsedMatchOf(PageRow(100, "singles", "individual", "8>4", <<1>>, <<2>>,
                          scoreText, 10),
                  IF leftIsMe THEN 1 ELSE 2)

\* C38: for every score the walkover flag of the extracted record equals
\* the flag the validator derives from the score and the walkover test of
\* the winner computation, and the record raises no walkover-mismatch
\* warning.
C38_WalkoverTestsAgree ==
    /\ ExtractedRecord.isWalkover = isWalkover(scoreText)
    /\ ExtractedRecord.isWalkover = (scoreText.marker \in ScrDotMarkers)
    /\ "Walkover flag mismatch" \notin validateMatch(ExtractedRecord).warnings

\* C39: the validator reports no RULE_4_SCORE_CONSISTENCY warning on the
\* matches the crawl has stored (all of them have a score without walkover
\* marker and unequal set counts).
C39_AuditorAcceptsIngestedWinner ==
    \A i \in DOMAIN report : report[i].rule # "RULE_4_SCORE_CONSISTENCY"

\* C40: a run over the finite chain of players, without operator and
\* without cancellation, eventually reaches and stays in a state in which
\* no item is pending or processing: every item is completed or failed and
\* has entered processing exactly once.
C40_CrawlOfFiniteGraphSettles ==
    <>[](\A r \in BagToSet(queue) :
            /\ r.status \in {"completed", "failed"}
            /\ r.attempts = 1)

\* the run has settled with the items of all three players of the chain
C40_Witness ==
    /\ pc = "wait"
    /\ \A playerId \in {1, 2, 3} :
          /\ ItemsOf(queue, playerId) = 1
          /\ StatusOf(queue, playerId) \in {"completed", "failed"}
          /\ AttemptsOf(queue, playerId) = 1

====
